---------------------------- MODULE Spec2Model ----------------------------
(***************************************************************************)
(* A model of the bd.loader asset browser:                                 *)
(*   - ProxyModel._human_key / lessThan, the natural-order sort comparator *)
(*     (specification SpecSort);                                           *)
(*   - IconManager and its PixmapLoader workers (specification SpecIcon);  *)
(*   - AssetTreeView, ItemModel and AssetLibraryWidget, the lazy tree, the *)
(*     icon requests of its items and the details panel (specification    *)
(*     Spec).                                                              *)
(***************************************************************************)
EXTENDS Integers, Sequences, FiniteSets, TLC

(***************************************************************************)
(* Bounds of the model.                                                    *)
(***************************************************************************)
\* longest sort key that is enumerated
MaxKeyLen == 3
\* request_icon calls made on an IconManager used on its own
MaxIconCalls == 3
\* clear_cache calls made on an IconManager used on its own
MaxClears == 1
\* distinct callbacks handed to an IconManager used on its own
NumCallbacks == 2
\* reload() and set_active_project() calls made on the tree view
MaxReloads == 1
\* load_by_regex calls made on the tree view
MaxSearches == 1
\* operations the user makes on the tree view: clicks, expansions, collapses,
\* searches and reloads
MaxUserOps == 3

VARIABLES
    sortLeft,       \* lessThan: KeyRole data of source_left (a string)
    sortRight,      \* lessThan: KeyRole data of source_right
    sortCalled,     \* whether lessThan has been called on the pair
    sortLess,       \* the value lessThan returned
    filterSource,   \* filtering: the keys of the items of the source model
    filterRegExp,   \* filtering: the wildcard pattern set on the proxy
    filterCalled,   \* whether the proxy has filtered the source model
    filterRows,     \* the keys of the source items the proxy has a row for
    acc_project,    \* Accessor._project: "None" or the id of the active project
    threadPool,     \* the numbers of the calls whose RequestRunnable is started, not run
    mainEvents,     \* the InvokeMethod calls queued for the main thread, oldest first
    requestLog,     \* the calls made on the Accessor, with what became of each (history)
    workers,        \* shutdown: each PixmapLoader's _running, its place in start(), whether
                    \* its thread was told to exit, the jobs it took after stop() (history)
    stopper,        \* shutdown: the place of the main thread in _stop_loader
    queue,          \* IconManager._queue, the LifoQueue shared with the workers
    loaded_icons,   \* IconManager._loaded_icons: asset id -> QIcon
    requests,       \* IconManager._requests: asset id -> callback
    loaders,        \* per PixmapLoader thread: the asset it is loading, or NoJob
    posted,         \* pixmap_loaded signals posted to the UI thread, oldest first
    hist,           \* history: counts of calls, queue puts, fetches and clears
    ev,             \* the operation of the last step and the callbacks it invoked
    items,          \* every Item created so far, by creation number; the root items too
    root,           \* ItemModel.invisibleRootItem(): the number of the current root
    mapping,        \* AssetTreeView._mapping: key -> the item its weak reference names
    viewState,      \* AssetTreeView._state
    project,        \* AssetTreeView._project.id
    expandedIndexes,\* the items the QTreeView holds expanded
    currentItem,    \* the item of the QTreeView's current index (0: none)
    filterPattern,  \* the wildcard set on the ProxyModel
    pending,        \* RequestRunnables started on the thread pool and not finished
    objs,           \* every AssetInfo object created so far, by creation number
    calls,          \* history: the operations the user has made so far
    current_asset_info, \* AssetLibraryWidget._current_asset_info (0: not set)
    panel           \* AssetDetailsWidget: its _state and the details its labels show

sortVars == <<sortLeft, sortRight, sortCalled, sortLess>>
filterVars == <<filterSource, filterRegExp, filterCalled, filterRows>>
accessorVars == <<acc_project, threadPool, mainEvents, requestLog>>
\* the variables of the specifications of one unit on its own
stopVars == <<workers, stopper>>
unitVars == <<sortVars, filterVars, accessorVars, stopVars>>
iconVars == <<queue, loaded_icons, requests, loaders, posted, hist>>

treeVars == <<items, root, mapping, viewState, project, expandedIndexes, currentItem,
              filterPattern, pending, objs, calls>>
detailsVars == <<current_asset_info, panel>>

vars == <<unitVars, iconVars, ev, treeVars, detailsVars>>

\* the values of these variables in a specification that does not use them
InitNoSort ==
    sortLeft = <<>> /\ sortRight = <<>> /\ sortCalled = FALSE /\ sortLess = FALSE
InitNoFilter ==
    filterSource = {} /\ filterRegExp = <<>> /\ filterCalled = FALSE /\ filterRows = {}
InitNoAccessor ==
    acc_project = "None" /\ threadPool = {} /\ mainEvents = <<>> /\ requestLog = <<>>

(***************************************************************************)
(* Strings are sequences of one-character strings.                         *)
(***************************************************************************)
Digits == {"0", "1", "2"}

\* the characters the keys that are compared are made of
Alphabet == {"v", "V", "0", "1", "."}

\* Unicode code points, the order Python compares str values by
CodePoint ==
    [c \in {".", "0", "1", "2", "E", "I", "M", "T", "V", "e", "i", "m", "t", "v"} |->
        CASE c = "." -> 46
          [] c = "0" -> 48
          [] c = "1" -> 49
          [] c = "2" -> 50
          [] c = "E" -> 69
          [] c = "I" -> 73
          [] c = "M" -> 77
          [] c = "T" -> 84
          [] c = "V" -> 86
          [] c = "e" -> 101
          [] c = "i" -> 105
          [] c = "m" -> 109
          [] c = "t" -> 116
          [] c = "v" -> 118]

Lower == {"e", "i", "m", "t", "v"}
Upper == {"E", "I", "M", "T", "V"}

ToUpper == [c \in Lower |-> CASE c = "e" -> "E" [] c = "i" -> "I" [] c = "m" -> "M"
                                 [] c = "t" -> "T" [] c = "v" -> "V"]
ToLower == [c \in Upper |-> CASE c = "E" -> "e" [] c = "I" -> "i" [] c = "M" -> "m"
                                 [] c = "T" -> "t" [] c = "V" -> "v"]

IsDigit(c) == c \in Digits

DigitValue(c) == CASE c = "0" -> 0 [] c = "1" -> 1 [] c = "2" -> 2

\* all strings over Alphabet of length at most MaxKeyLen
RECURSIVE StringsUpTo(_)
StringsUpTo(n) ==
    IF n = 0 THEN {<<>>}
    ELSE StringsUpTo(n - 1) \cup {Append(s, c) : s \in StringsUpTo(n - 1), c \in Alphabet}

Keys == StringsUpTo(MaxKeyLen)

(***************************************************************************)
(* str.swapcase                                                            *)
(***************************************************************************)
SwapChar(c) == IF c \in Lower THEN ToUpper[c] ELSE IF c \in Upper THEN ToLower[c] ELSE c

swapcase(s) == [i \in 1..Len(s) |-> SwapChar(s[i])]

\* str.casefold, for the mutants
swapcase_fold(s) == [i \in 1..Len(s) |-> IF s[i] \in Upper THEN ToLower[s[i]] ELSE s[i]]

(***************************************************************************)
(* re.split(r"(\d*\.\d+|\d+)", key)                                        *)
(***************************************************************************)
\* length of the longest run of digits of s that starts at position i
RECURSIVE DigitRun(_, _)
DigitRun(s, i) == IF i <= Len(s) /\ IsDigit(s[i]) THEN 1 + DigitRun(s, i + 1) ELSE 0

\* length of the match of (\d*\.\d+|\d+) at position i of s, 0 if there is none
MatchLen(s, i) ==
    LET k == DigitRun(s, i)
        dot == i + k <= Len(s) /\ s[i + k] = "."
        m == IF dot THEN DigitRun(s, i + k + 1) ELSE 0
    IN  IF dot /\ m >= 1 THEN k + 1 + m ELSE k

\* the parts re.split returns for s[i..], the text run that started at position from
RECURSIVE SplitFrom(_, _, _)
SplitFrom(s, from, i) ==
    IF i > Len(s) THEN <<SubSeq(s, from, Len(s))>>
    ELSE LET n == MatchLen(s, i)
         IN  IF n = 0 THEN SplitFrom(s, from, i + 1)
             ELSE <<SubSeq(s, from, i - 1), SubSeq(s, i, i + n - 1)>>
                      \o SplitFrom(s, i + n, i + n)

re_split(s) == SplitFrom(s, 1, 1)

(***************************************************************************)
(* float(e) of a numeric run, as the exact multiple of 10^-FracDigits.     *)
(***************************************************************************)
RECURSIVE Pow10(_)
Pow10(n) == IF n = 0 THEN 1 ELSE 10 * Pow10(n - 1)

RECURSIVE DecimalValue(_)
DecimalValue(ds) ==
    IF ds = <<>> THEN 0
    ELSE 10 * DecimalValue(SubSeq(ds, 1, Len(ds) - 1)) + DigitValue(ds[Len(ds)])

\* no numeric run of the keys compared has more fraction digits than this
FracDigits == MaxKeyLen

float(e) ==
    LET k == DigitRun(e, 1)
        int == SubSeq(e, 1, k)
        frac == IF k < Len(e) THEN SubSeq(e, k + 2, Len(e)) ELSE <<>>
    IN  DecimalValue(int) * Pow10(FracDigits)
            + DecimalValue(frac) * Pow10(FracDigits - Len(frac))

(***************************************************************************)
(* ProxyModel._human_key: text runs at the even (0-based) places, with     *)
(* their case swapped, numeric runs at the odd places, as numbers.         *)
(***************************************************************************)
\* an element of a natural key: a str or a float
Str(s) == [type |-> "str", v |-> s]
Float(x) == [type |-> "float", v |-> x]

\* the mutant of _human_key that folds the case of the text runs
_human_key_casefold(key) ==
    LET parts == re_split(key)
    IN  [i \in 1..Len(parts) |->
            IF (i - 1) % 2 = 0 THEN Str(swapcase_fold(parts[i])) ELSE Float(float(parts[i]))]

\* the mutant of _human_key that leaves the numeric runs as text
_human_key_text(key) ==
    LET parts == re_split(key)
    IN  [i \in 1..Len(parts) |-> Str(swapcase(parts[i]))]

_human_key(key) ==
    LET parts == re_split(key)
    IN  [i \in 1..Len(parts) |->
            IF (i - 1) % 2 = 0 THEN Str(swapcase(parts[i])) ELSE Float(float(parts[i]))]

(***************************************************************************)
(* Python's comparison of str values and of tuples.                        *)
(***************************************************************************)
\* the first place where sequences a and b differ, 0 if one is a prefix of the other
RECURSIVE FirstDiff(_, _, _)
FirstDiff(a, b, i) ==
    IF i > Len(a) \/ i > Len(b) THEN 0
    ELSE IF a[i] # b[i] THEN i
    ELSE FirstDiff(a, b, i + 1)

StrGreater(a, b) ==
    LET d == FirstDiff(a, b, 1)
    IN  IF d = 0 THEN Len(a) > Len(b) ELSE CodePoint[a[d]] > CodePoint[b[d]]

\* x > y for two elements of natural keys; a str and a float do not compare
ElemGreater(x, y) ==
    CASE x.type = "str" /\ y.type = "str" -> StrGreater(x.v, y.v)
      [] x.type = "float" /\ y.type = "float" -> x.v > y.v
      [] OTHER -> "TypeError"

TupleGreater(a, b) ==
    LET d == FirstDiff(a, b, 1)
    IN  IF d = 0 THEN Len(a) > Len(b) ELSE ElemGreater(a[d], b[d])

(***************************************************************************)
(* ProxyModel.lessThan                                                     *)
(***************************************************************************)
\* the mutant of lessThan that compares with >=
lessThan_or_equal(left_sort_data, right_sort_data) ==
    TupleGreater(_human_key(right_sort_data), _human_key(left_sort_data)) = FALSE

lessThan(left_sort_data, right_sort_data) ==
    TupleGreater(_human_key(left_sort_data), _human_key(right_sort_data))

\* The view sorts the proxy in descending order (setSortingEnabled with the hidden
\* header's default indicator): row a is shown above row b iff lessThan(b, a).
ShownAbove(a, b) == lessThan(b, a)

(***************************************************************************)
(* ProxyModel.filterAcceptsRow and the recursive filtering of the          *)
(* QSortFilterProxyModel.  A key is the list of its parts, each a string:  *)
(* the project id, the type name, the asset name.                          *)
(***************************************************************************)
\* longest pattern that is enumerated
MaxPatternLen == 2

\* the text of a key: its parts joined by "|"
RECURSIVE KeyText(_)
KeyText(key) ==
    IF Len(key) = 1 THEN key[1]
    ELSE KeyText(SubSeq(key, 1, Len(key) - 1)) \o <<"|">> \o key[Len(key)]

\* Qt.CaseInsensitive: characters are compared with their case folded
CaseFold(c) == IF c \in Upper THEN ToLower[c] ELSE c

\* QRegExp in Wildcard syntax: whether the pattern from place p on matches the text
\* from place i on; "?" stands for one character, "*" for any number of them
RECURSIVE MatchHere(_, _, _, _)
MatchHere(rx, p, str, i) ==
    IF p > Len(rx) THEN TRUE
    ELSE IF rx[p] = "*" THEN \E j \in i..(Len(str) + 1) : MatchHere(rx, p + 1, str, j)
    ELSE IF i > Len(str) THEN FALSE
    ELSE IF rx[p] = "?" THEN MatchHere(rx, p + 1, str, i + 1)
    ELSE CaseFold(rx[p]) = CaseFold(str[i]) /\ MatchHere(rx, p + 1, str, i + 1)

\* QRegExp.indexIn(str): the position of the first match, -1 when there is none
indexIn(rx, str) ==
    LET starts == {i \in 1..(Len(str) + 1) : MatchHere(rx, 1, str, i)}
    IN  IF starts = {} THEN -1
        ELSE (CHOOSE i \in starts : \A j \in starts : i <= j) - 1

\* ProxyModel.filterAcceptsRow for the row of the item with this key
filterAcceptsRow(rx, key) ==
    IF rx = <<>> THEN TRUE
    ELSE indexIn(rx, KeyText(key)) # -1

\* the keys of the children of the item with this key
ChildKeys(source, key) ==
    {c \in source : Len(c) = Len(key) + 1 /\ SubSeq(c, 1, Len(key)) = key}

\* the mutant of filterRecursiveAcceptsRow that does not look at the children
filterRecursiveAcceptsRow_flat(source, rx, key) == filterAcceptsRow(rx, key)

\* setRecursiveFilteringEnabled(True): a row is accepted when filterAcceptsRow accepts
\* it or one of its children is accepted
RECURSIVE filterRecursiveAcceptsRow(_, _, _)
filterRecursiveAcceptsRow(source, rx, key) ==
    \/ filterAcceptsRow(rx, key)
    \/ \E c \in ChildKeys(source, key) : filterRecursiveAcceptsRow(source, rx, c)

\* the rows of the proxy: the accepted rows under the root, and the accepted rows
\* under each row the proxy has
ProxyRows(source, rx) ==
    {key \in source :
        \A n \in 2..Len(key) : filterRecursiveAcceptsRow(source, rx, SubSeq(key, 1, n))}

(***************************************************************************)
(* The catalog the data accessor serves, and AssetInfo objects.            *)
(***************************************************************************)
Catalog ==
    { [id |-> 1, type |-> "Character", name |-> "hero"],
      [id |-> 2, type |-> "Character", name |-> "villain"] }

AssetIds == {a.id : a \in Catalog}

\* the AssetInfo object number obj of a query result: the fields of data_models.AssetInfo
\* that are set (details are kept per object, in the variable details)
AssetInfo(a, obj) == [id |-> a.id, type |-> a.type, name |-> a.name, obj |-> obj]

(***************************************************************************)
(* QPixmap and QIcon values.                                               *)
(***************************************************************************)
\* a null QPixmap, which is also what a None pixmap is emitted as
NullPixmap == [null |-> TRUE, of |-> 0]
\* the pixmap load_asset_icon_pixmap returns for an asset that has one (None otherwise)
PixmapOf(asset_info) == [null |-> FALSE, of |-> asset_info.id]

\* QtGui.QIcon(pixmap): the icon of a null pixmap is the null icon
NullIcon == [null |-> TRUE, src |-> "", of |-> 0]
QIcon(pixmap) == IF pixmap.null THEN NullIcon ELSE [null |-> FALSE, src |-> "pixmap", of |-> pixmap.of]
\* qta.icon(name)
QtaIcon(name) == [null |-> FALSE, src |-> name, of |-> 0]

(***************************************************************************)
(* queue.LifoQueue: put appends to the list, get pops its last element.    *)
(***************************************************************************)
LifoPut(q, item) == Append(q, item)

\* the mutant of LifoTop that takes the oldest element, as queue.Queue does
LifoTop_fifo(q) == 1

\* the place of the element that get returns
LifoTop(q) == Len(q)

LifoGet(q) == q[LifoTop(q)]
\* the mutant of LifoRest that leaves the taken asset in the queue
LifoRest_keep(q) == q

LifoRest(q) == [i \in 1..(Len(q) - 1) |-> IF i < LifoTop(q) THEN q[i] ELSE q[i + 1]]

(***************************************************************************)
(* dict operations                                                         *)
(***************************************************************************)
EmptyDict == <<>>
DictSet(d, k, v) == (k :> v) @@ d
DictDel(d, k) == [x \in DOMAIN d \ {k} |-> d[x]]

(***************************************************************************)
(* IconManager                                                             *)
(***************************************************************************)
\* range(12) in IconManager.start
NumLoaders == 12
Loaders == 1..NumLoaders
NoJob == [seq |-> 0]

NoEvent == [op |-> "none", id |-> 0, cb |-> 0, called |-> <<>>]

\* a callback invocation: callback(icon)
Call(callback, icon) == [callback |-> callback, icon |-> icon]

ZeroCounts == [i \in AssetIds |-> 0]
Bump(f, i) == [f EXCEPT ![i] = @ + 1]

\* IconManager.__init__ and start(): nothing queued, cached or pending, every loader
\* thread waiting on the queue
InitIconManager ==
    /\ queue = <<>>
    /\ loaded_icons = EmptyDict
    /\ requests = EmptyDict
    /\ loaders = [w \in Loaders |-> NoJob]
    /\ posted = <<>>
    /\ hist = [calls |-> ZeroCounts, puts |-> ZeroCounts, fetches |-> ZeroCounts,
               clears |-> 0, seq |-> 0, total |-> 0, first |-> ZeroCounts, invoked |-> ZeroCounts]

\* the mutant of IsCached that never finds the icon
IsCached_never(asset_id) == FALSE

\* asset_id in self._loaded_icons
IsCached(asset_id) == asset_id \in DOMAIN loaded_icons

\* the mutant of IsPending that never finds a pending request
IsPending_never(asset_id) == FALSE

\* asset_id in self._requests
IsPending(asset_id) == asset_id \in DOMAIN requests

\* the callbacks request_icon invokes before it returns
RequestIconCalls(callback, asset_info) ==
    IF IsCached(asset_info.id)
    THEN <<Call(callback, loaded_icons[asset_info.id])>>
    ELSE <<>>

\* IconManager.request_icon, its effect on the manager. A queue entry carries, beside
\* the AssetInfo, the number of the put that made it (history, not read by the code).
\* hist.first keeps, for an asset id, the first callback that asked for it while it was
\* not cached, since the last clear_cache (history).  hist.invoked counts, for an asset
\* id, the deliveries that invoked the callback now registered for it (history).
request_icon(callback, asset_info) ==
    LET asset_id == asset_info.id
        enqueue == ~IsCached(asset_id) /\ ~IsPending(asset_id)
    IN  /\ requests' = IF enqueue THEN DictSet(requests, asset_id, callback) ELSE requests
        /\ queue' = IF enqueue
                    THEN LifoPut(queue, [info |-> asset_info, seq |-> hist.seq + 1])
                    ELSE queue
        /\ hist' = [hist EXCEPT !.total = @ + 1,
                                !.calls = Bump(@, asset_id),
                                !.puts = IF enqueue THEN Bump(@, asset_id) ELSE @,
                                !.seq = IF enqueue THEN @ + 1 ELSE @,
                                !.first = IF ~IsCached(asset_id) /\ @[asset_id] = 0
                                          THEN [@ EXCEPT ![asset_id] = callback]
                                          ELSE @,
                                !.invoked = IF enqueue THEN [@ EXCEPT ![asset_id] = 0]
                                            ELSE @]
        /\ UNCHANGED <<loaded_icons, loaders, posted>>

\* the callbacks _on_pixmap_loaded invokes through _apply_icon
OnPixmapLoadedCalls(asset_info, pixmap) ==
    IF asset_info.id \in DOMAIN requests
    THEN <<Call(requests[asset_info.id], QIcon(pixmap))>>
    ELSE <<>>

\* the mutant of _on_pixmap_loaded that keeps the icon the cache has
_on_pixmap_loaded_keep(asset_info, pixmap) ==
    /\ loaded_icons' = IF asset_info.id \in DOMAIN loaded_icons THEN loaded_icons
                       ELSE DictSet(loaded_icons, asset_info.id, QIcon(pixmap))
    /\ hist' = [hist EXCEPT !.invoked = IF asset_info.id \in DOMAIN requests
                                         THEN Bump(@, asset_info.id) ELSE @]
    /\ UNCHANGED <<requests, queue, loaders>>

\* IconManager._on_pixmap_loaded, run by the UI thread for the oldest posted signal
_on_pixmap_loaded(asset_info, pixmap) ==
    /\ loaded_icons' = DictSet(loaded_icons, asset_info.id, QIcon(pixmap))
    /\ hist' = [hist EXCEPT !.invoked = IF asset_info.id \in DOMAIN requests
                                         THEN Bump(@, asset_info.id) ELSE @]
    /\ UNCHANGED <<requests, queue, loaders>>

\* the mutant of clear_cache that keeps the pending requests
clear_cache_keep_requests ==
    /\ loaded_icons' = EmptyDict
    /\ requests' = requests
    /\ hist' = [hist EXCEPT !.clears = @ + 1, !.calls = ZeroCounts, !.puts = ZeroCounts,
                            !.first = ZeroCounts, !.invoked = ZeroCounts]
    /\ UNCHANGED <<queue, loaders, posted>>

\* IconManager.clear_cache
clear_cache ==
    /\ loaded_icons' = EmptyDict
    /\ requests' = EmptyDict
    /\ hist' = [hist EXCEPT !.clears = @ + 1, !.calls = ZeroCounts, !.puts = ZeroCounts,
                            !.first = ZeroCounts, !.invoked = ZeroCounts]
    /\ UNCHANGED <<queue, loaders, posted>>

(***************************************************************************)
(* PixmapLoader.start, the loop of a loader thread.  The loaders are       *)
(* interchangeable: the waiting loader of the lowest number stands for     *)
(* whichever loader's get returns first.                                   *)
(***************************************************************************)
Waiting == {w \in Loaders : loaders[w] = NoJob}
Loading == {w \in Loaders : loaders[w] # NoJob}
FirstWaiting == CHOOSE w \in Waiting : \A x \in Waiting : w <= x

\* asset_info = self._queue.get(timeout=0.005), when the queue is not empty
LoaderGet ==
    /\ queue # <<>>
    /\ Waiting # {}
    /\ loaders' = [loaders EXCEPT ![FirstWaiting] = LifoGet(queue)]
    /\ queue' = LifoRest(queue)
    /\ hist' = [hist EXCEPT !.fetches = Bump(@, LifoGet(queue).info.id)]
    /\ UNCHANGED <<loaded_icons, requests, posted>>

\* the mutant of SlotThread for a direct connection: the slot runs in the emitting thread
SlotThread_direct(emitter) == emitter

\* pixmap_loaded.connect(self._on_pixmap_loaded): the IconManager lives in the main
\* thread and the loader was moved to its own thread, so the connection is queued and
\* the slot runs in the main thread
SlotThread(emitter) == "main"

\* load_asset_icon_pixmap returns a pixmap, which is rounded and emitted: the signal is
\* posted to the thread the slot runs in
LoaderEmit(w, pixmap) ==
    /\ loaders[w] # NoJob
    /\ posted' = Append(posted, [info |-> loaders[w].info, pixmap |-> pixmap,
                                 thread |-> SlotThread("loader")])
    /\ loaders' = [loaders EXCEPT ![w] = NoJob]
    /\ UNCHANGED <<queue, loaded_icons, requests, hist>>

\* load_asset_icon_pixmap or the rounding raises: logged, nothing is emitted
LoaderFail(w) ==
    /\ loaders[w] # NoJob
    /\ loaders' = [loaders EXCEPT ![w] = NoJob]
    /\ UNCHANGED <<queue, loaded_icons, requests, posted, hist>>

(***************************************************************************)
(* The shutdown: PixmapLoader.stop and IconManager._stop_loader.  A loader *)
(* is at the test of its loop ("while"), in queue.get ("get"), fetching    *)
(* ("fetch") or has returned from start() ("done").  While _running is     *)
(* True the test passes, so a running loader that is not fetching is kept  *)
(* at "get"; stop() finds it at the test or in get.                        *)
(***************************************************************************)
Worker(pc) == [running |-> TRUE, pc |-> pc, exited |-> FALSE, after |-> 0]

\* the loaders of an IconManager that is not shut down, and _stop_loader not called
InitNoStop ==
    /\ workers = [w \in Loaders |-> Worker("get")]
    /\ stopper = [call |-> 0, i |-> 0, at |-> "idle"]

\* the mutant of KeepsLooping that does not read the flag
KeepsLooping_always(worker) == TRUE

\* while self._running
KeepsLooping(worker) == worker.running

\* the place of a loader after the body of its loop
AfterBody(worker) == IF worker.running THEN "get" ELSE "while"

\* the test of the loop
WorkerTest(w) ==
    /\ workers[w].pc = "while"
    /\ workers' = [workers EXCEPT ![w].pc = IF KeepsLooping(workers[w]) THEN "get" ELSE "done"]
    /\ UNCHANGED <<stopper, iconVars>>

\* self._queue.get(timeout=0.005) returns an asset
WorkerGet(w) ==
    /\ workers[w].pc = "get"
    /\ queue # <<>>
    /\ loaders' = [loaders EXCEPT ![w] = LifoGet(queue)]
    /\ queue' = LifoRest(queue)
    /\ hist' = [hist EXCEPT !.fetches = Bump(@, LifoGet(queue).info.id)]
    /\ workers' = [workers EXCEPT ![w].pc = "fetch",
                                  ![w].after = IF workers[w].running THEN @ ELSE @ + 1]
    /\ UNCHANGED <<stopper, loaded_icons, requests, posted>>

\* self._queue.get(timeout=0.005) raises Empty: continue
WorkerEmpty(w) ==
    /\ workers[w].pc = "get"
    /\ queue = <<>>
    /\ ~workers[w].running
    /\ workers' = [workers EXCEPT ![w].pc = "while"]
    /\ UNCHANGED <<stopper, iconVars>>

\* the fetch returns and the pixmap is emitted
WorkerEmit(w) ==
    /\ workers[w].pc = "fetch"
    /\ LoaderEmit(w, PixmapOf(loaders[w].info))
    /\ workers' = [workers EXCEPT ![w].pc = AfterBody(workers[w])]
    /\ UNCHANGED stopper

\* the fetch raises
WorkerFail(w) ==
    /\ workers[w].pc = "fetch"
    /\ LoaderFail(w)
    /\ workers' = [workers EXCEPT ![w].pc = AfterBody(workers[w])]
    /\ UNCHANGED stopper

\* aboutToQuit is emitted: _stop_loader, connected once per loader, is called
StopBegin ==
    /\ stopper.at = "idle"
    /\ stopper' = [call |-> 1, i |-> 1, at |-> "stop"]
    /\ UNCHANGED <<workers, iconVars>>

\* pixmap_loader.stop(): a running loader that is not fetching is at the test of its
\* loop or in get
StopStop ==
    /\ stopper.at = "stop"
    /\ \E pc \in IF workers[stopper.i].pc = "get" /\ workers[stopper.i].running
                 THEN {"while", "get"}
                 ELSE {workers[stopper.i].pc} :
        workers' = [workers EXCEPT ![stopper.i].running = FALSE, ![stopper.i].pc = pc]
    /\ stopper' = [stopper EXCEPT !.at = "exit"]
    /\ UNCHANGED iconVars

\* pixmap_loader_thread.exit()
StopExit ==
    /\ stopper.at = "exit"
    /\ workers' = [workers EXCEPT ![stopper.i].exited = TRUE]
    /\ stopper' = [stopper EXCEPT !.at = "wait"]
    /\ UNCHANGED iconVars

\* the thread has finished: start() has returned and the thread was told to exit
ThreadFinished(worker) == worker.pc = "done" /\ worker.exited

\* pixmap_loader_thread.wait() returns; the loop goes on with the next loader, and
\* after the last one _stop_loader returns and its next connection is called
StopWait ==
    /\ stopper.at = "wait"
    /\ ThreadFinished(workers[stopper.i])
    /\ stopper' = IF stopper.i < NumLoaders
                  THEN [stopper EXCEPT !.i = @ + 1, !.at = "stop"]
                  ELSE IF stopper.call < NumLoaders
                  THEN [call |-> stopper.call + 1, i |-> 1, at |-> "stop"]
                  ELSE [stopper EXCEPT !.at = "returned"]
    /\ UNCHANGED <<workers, iconVars>>

(***************************************************************************)
(* The data the accessor's hooks serve.                                    *)
(***************************************************************************)
RECURSIVE SeqOfSet(_)
\* the elements of a set of assets as a list, by ascending id
SeqOfSet(S) ==
    IF S = {} THEN <<>>
    ELSE LET a == CHOOSE x \in S : \A y \in S : x.id <= y.id
         IN  <<a>> \o SeqOfSet(S \ {a})

\* get_asset_types: the types of the catalog; [] when the hook is missing
AssetTypes == <<"Character">>
AssetTypesResults == {AssetTypes, <<>>}

\* get_assets: the assets of a type; [] when the hook is missing
AssetsOfType(asset_type) == SeqOfSet({a \in Catalog : a.type = asset_type})
AssetsResults(asset_type) == {AssetsOfType(asset_type), <<>>}

\* get_assets_by_regex: the assets a pattern selects
Regexes == {"hero", "i"}
RegexResult(regex) ==
    IF regex = "hero" THEN SeqOfSet({a \in Catalog : a.name = "hero"})
    ELSE SeqOfSet({a \in Catalog : a.name = "villain"})

\* data_models.AssetDetails: None, or the details of an asset
NoDetails == [none |-> TRUE, of |-> 0]
DetailsOf(asset_id) == [none |-> FALSE, of |-> asset_id]
\* get_assets_details: the details of the asset; None when the hook is missing
DetailsResults(asset_id) == {DetailsOf(asset_id), NoDetails}

(***************************************************************************)
(* The hook accessor (database.accessor.Accessor), RequestRunnable and     *)
(* InvokeMethod.                                                           *)
(***************************************************************************)
\* the calls made on the Accessor that are followed
MaxRequests == 3

\* Python values: None, a list, an object
None == [kind |-> "None", elems |-> <<>>]
List(elems) == [kind |-> "list", elems |-> elems]
Object(name) == [kind |-> "object", elems |-> <<name>>]
\* bool(value)
Truthy(value) == value.kind = "object" \/ (value.kind = "list" /\ value.elems # <<>>)

\* what a function call comes to: it returns a value or raises an exception
Returns(value) == [exc |-> "", value |-> value]
Raises(exc) == [exc |-> exc, value |-> None]

RequestKinds ==
    {"request_asset_types", "request_assets", "request_assets_by_regex",
     "request_asset_details"}
ListKinds == RequestKinds \ {"request_asset_details"}

\* execute_hook(name, ...).one(): the hook's value, the two errors of a hook that is
\* not registered, or any other exception the hook raises
HookMissing == {"HookNotFoundError", "HooksNotLoadedError"}
HookOutcomes(kind) ==
    {Raises(exc) : exc \in HookMissing \cup {"Exception"}}
    \cup (IF kind \in ListKinds
            THEN {Returns(List(<<"a">>)), Returns(List(<<>>)), Returns(None)}
          ELSE IF kind = "request_asset_details"
            THEN {Returns(Object("AssetDetails")), Returns(None)}
          ELSE {Returns(Object("QPixmap")), Returns(None)})

\* the mutant of _request that does not catch the errors of a missing hook
_request_uncaught(kind, hook) ==
    IF hook.exc # "" THEN hook
    ELSE IF kind \in ListKinds /\ ~Truthy(hook.value) THEN Returns(List(<<>>))
    ELSE hook

\* the closure _request of the four request methods
_request(kind, hook) ==
    IF kind \in ListKinds
    THEN IF hook.exc \in HookMissing THEN Returns(List(<<>>))
         ELSE IF hook.exc # "" THEN hook
         ELSE IF Truthy(hook.value) THEN hook
         ELSE Returns(List(<<>>))
    ELSE IF hook.exc \in HookMissing THEN Returns(None)
         ELSE hook

\* Accessor.load_asset_icon_pixmap
load_asset_icon_pixmap(hook) ==
    IF hook.exc \in HookMissing THEN Returns(None) ELSE hook

\* Accessor.set_active_project(project)
Accessor_set_active_project(p) ==
    /\ acc_project' = p
    /\ UNCHANGED <<threadPool, mainEvents, requestLog>>

\* the four request methods return without a request when no project is active
HasProject(kind, proj) == proj # "None"

\* the mutant of InvokeThread that leaves the object in the thread that made it
InvokeThread_current(thread) == thread

\* InvokeMethod.__init__: the object is moved to the main thread, so the signal it
\* emits from the thread given reaches execute() in the main thread
InvokeThread(thread) == "main"

\* the mutant of run without the except clause
run_uncaught(request) ==
    [invoke |-> request.exc = "", result |-> request.value, logged |-> FALSE,
     raised |-> request.exc]

\* RequestRunnable.run, given what self._request() came to: whether InvokeMethod is
\* made and with which result, whether the error is logged, what run() raises
run(request) ==
    IF request.exc = ""
    THEN [invoke |-> TRUE, result |-> request.value, logged |-> FALSE, raised |-> ""]
    ELSE [invoke |-> FALSE, result |-> None, logged |-> TRUE, raised |-> ""]

\* a call in requestLog
LogEntry(kind, dispatched) ==
    [kind |-> kind, dispatched |-> dispatched, hook |-> Returns(None), ran |-> FALSE,
     raised |-> "", invoked |-> 0, thread |-> "", result |-> None, waited |-> FALSE]

(***************************************************************************)
(* Item (a QStandardItem) and the roles AssetTreeView stores on it.        *)
(***************************************************************************)
\* no entry of Item._icons for a state
NoIcon == [null |-> TRUE, src |-> "none", of |-> 0]

\* a new Item(label): no role data, no icon, Item._state Normal.  data is the number
\* of the AssetInfo object stored under DataRole, 0 when DataRole holds the label.
\* dispatched counts the children requests sent for the item, requested the calls of
\* request_icon made for it (history).
Item(label) ==
    [alive |-> TRUE, text |-> label, etype |-> "None", expandable |-> FALSE,
     key |-> <<>>, lstate |-> "None", icon |-> NullIcon, data |-> 0, parent |-> 0,
     state |-> "Normal", icons |-> [Normal |-> NoIcon, Expanded |-> NoIcon],
     dispatched |-> 0, requested |-> 0]

\* Item.setIcon(icon, state)
setIcon(item, icon, state) ==
    [item EXCEPT !.icons[state] = icon,
                 !.icon = IF state = item.state THEN icon ELSE @]

\* Item.set_state(state)
set_state(item, state) ==
    IF state = item.state THEN item
    ELSE [item EXCEPT !.state = state,
                      !.icon = IF item.icons[state] # NoIcon THEN item.icons[state] ELSE @]

\* an item whose C++ object has been deleted: shiboken2.isValid is false for it
Destroyed == [Item("") EXCEPT !.alive = FALSE]

\* shiboken2.isValid(item)
isValid(S, item) == S.items[item].alive

\* the icon _append_item sets on a new AssetType item
TypeIcon(label) ==
    IF label = "Character" THEN QtaIcon("fa5s.user-astronaut")
    ELSE IF label = "Environment" THEN QtaIcon("fa5s.mountain")
    ELSE IF label = "Prop" THEN QtaIcon("fa5s.shopping-bag")
    ELSE IF label = "Set" THEN QtaIcon("fa5s.layer-group")
    ELSE NullIcon

\* ItemModel._asset_icon
AssetIcon == QtaIcon("fa5s.image")

\* the state that the methods of AssetTreeView and AssetLibraryWidget read and write
View ==
    [items |-> items, root |-> root, mapping |-> mapping, viewState |-> viewState,
     project |-> project, pending |-> pending, objs |-> objs,
     current_asset_info |-> current_asset_info, panel |-> panel]

SetView(S) ==
    /\ items' = S.items
    /\ root' = S.root
    /\ mapping' = S.mapping
    /\ viewState' = S.viewState
    /\ project' = S.project
    /\ pending' = S.pending
    /\ objs' = S.objs
    /\ current_asset_info' = S.current_asset_info
    /\ panel' = S.panel

\* RequestRunnable.execute(request, callback): the runner is started on the pool.  A
\* request names the item its callback is bound to or, for a types or details request,
\* the item it was made for (history), its argument and the AssetInfo object it is for.
Request(kind, item, arg, obj) == [kind |-> kind, item |-> item, arg |-> arg, obj |-> obj]
execute(S, request) == [S EXCEPT !.pending = Append(@, request)]

(***************************************************************************)
(* AssetTreeView: the methods that build the tree.  Each takes the state S *)
(* it starts in and gives the state it leaves.                             *)
(***************************************************************************)
\* the mutant of _find_item_by_key that never finds an item
_find_item_by_key_none(S, key) == [item |-> 0, S |-> S]

\* AssetTreeView._find_item_by_key: the item found (0: None) and the state afterwards.
\* The entry of a key whose item is gone or not valid is deleted.
_find_item_by_key(S, key) ==
    IF key \notin DOMAIN S.mapping THEN [item |-> 0, S |-> S]
    ELSE IF isValid(S, S.mapping[key]) THEN [item |-> S.mapping[key], S |-> S]
    ELSE [item |-> 0, S |-> [S EXCEPT !.mapping = DictDel(@, key)]]

\* the key f"{parent_key}|{label}", as the list of its parts
JoinKey(parent_key, label) == Append(parent_key, label)

\* AssetTreeView._append_item: the item returned and the state afterwards
_append_item(S, parent_item_arg, label, entity_type, is_expandable) ==
    LET parent_item == IF isValid(S, parent_item_arg) THEN parent_item_arg ELSE S.root
        parent_key == IF S.items[parent_item].key = <<>>
                      THEN <<S.project>>
                      ELSE S.items[parent_item].key
        key == JoinKey(parent_key, label)
        found == _find_item_by_key(S, key)
        child == Len(found.S.items) + 1
        created == [Item(label) EXCEPT !.etype = entity_type,
                                       !.expandable = is_expandable,
                                       !.key = key,
                                       !.lstate = "NotLoaded",
                                       !.parent = parent_item]
        child_item == IF entity_type = "AssetName" THEN created
                      ELSE IF entity_type = "AssetType"
                      THEN IF TypeIcon(label) # NullIcon
                           THEN setIcon(created, TypeIcon(label), "Normal")
                           ELSE created
                      ELSE setIcon(setIcon(created, QtaIcon("fa5s.folder"), "Normal"),
                                   QtaIcon("fa5s.folder-open"), "Expanded")
    IN  IF found.item # 0 THEN found
        ELSE [item |-> child,
              S |-> [found.S EXCEPT !.items = Append(@, child_item),
                                    !.mapping = DictSet(@, key, child)]]

\* the loop of _append_items over the labels
RECURSIVE AppendLabels(_, _, _, _)
AppendLabels(S, parent_item, entity_type, labels) ==
    IF labels = <<>> THEN S
    ELSE AppendLabels(_append_item(S, parent_item, Head(labels), entity_type, TRUE).S,
                      parent_item, entity_type, Tail(labels))

\* AssetTreeView._append_items
_append_items(S, parent_item, entity_type, labels) ==
    IF ~isValid(S, parent_item) THEN S
    ELSE [AppendLabels(S, parent_item, entity_type, labels)
            EXCEPT !.items[parent_item].lstate = "Loaded"]

\* the loop of _append_asset_items over the assets (numbers of AssetInfo objects)
RECURSIVE AppendAssets(_, _, _, _)
AppendAssets(S, parent_item, entity_type, assets) ==
    IF assets = <<>> THEN S
    ELSE LET r == _append_item(S, parent_item, S.objs[Head(assets)].name,
                               entity_type, FALSE)
         IN  AppendAssets([r.S EXCEPT !.items[r.item].data = Head(assets)],
                          parent_item, entity_type, Tail(assets))

\* AssetTreeView._append_asset_items
_append_asset_items(S, parent_item, entity_type, assets) ==
    IF ~isValid(S, parent_item) THEN S
    ELSE [AppendAssets(S, parent_item, entity_type, assets)
            EXCEPT !.items[parent_item].lstate = "Loaded"]

\* the string "{parent_key}|{asset_name}" of _append_asset_items_by_regex, which is
\* not an f-string: the key that is looked up is this text itself
LiteralKey == <<"{parent_key}|{asset_name}">>

\* the loop of _append_asset_items_by_regex over the assets
RECURSIVE AppendByRegex(_, _)
AppendByRegex(S, assets) ==
    IF assets = <<>> THEN S
    ELSE LET asset == S.objs[Head(assets)]
             parent_key == <<S.project, asset.type>>
             type_found == _find_item_by_key(S, parent_key)
             asset_type_item ==
                 IF type_found.item = 0
                 THEN _append_item(type_found.S, type_found.S.root, asset.type,
                                   "AssetType", TRUE)
                 ELSE type_found
             name_found == _find_item_by_key(asset_type_item.S, LiteralKey)
             child_item == _append_item(name_found.S, asset_type_item.item, asset.name,
                                        "AssetName", FALSE)
         IN  AppendByRegex(IF name_found.item = 0
                           THEN [child_item.S EXCEPT !.items[child_item.item].data =
                                                        Head(assets)]
                           ELSE name_found.S,
                           Tail(assets))

\* AssetTreeView._append_asset_items_by_regex
_append_asset_items_by_regex(S, assets) ==
    [AppendByRegex(S, assets) EXCEPT !.viewState = "Ready"]

\* the mutant of NotYetLoaded that lets every call of _load_children go on
NotYetLoaded_always(S, parent_item) == TRUE

\* the test of _load_children: the loading state of the item is NotLoaded
NotYetLoaded(S, parent_item) == S.items[parent_item].lstate = "NotLoaded"

\* AssetTreeView._load_children
_load_children(S, parent_item) ==
    IF ~NotYetLoaded(S, parent_item) THEN S
    ELSE LET S1 == [S EXCEPT !.items[parent_item].lstate = "InProgress"]
         IN  IF parent_item = S.root
             THEN execute([S1 EXCEPT !.items[parent_item].dispatched = @ + 1],
                          Request("types", parent_item, "", 0))
             ELSE IF S.items[parent_item].etype = "AssetType"
             THEN execute([S1 EXCEPT !.items[parent_item].dispatched = @ + 1],
                          Request("assets", parent_item, S.items[parent_item].text, 0))
             ELSE S1

\* AssetTreeView._load_children_by_regex
\* (the request is marked with the root it was dispatched under, which the code does
\* not read: history)
_load_children_by_regex(S, regex) == execute(S, Request("regex", S.root, regex, 0))

\* the mutant of _clear that leaves the view state as it is
_clear_keep_state(S) ==
    LET item == Len(S.items) + 1
        S1 == [S EXCEPT !.items = Append([i \in DOMAIN @ |-> Destroyed],
                                         [Item("") EXCEPT !.lstate = "NotLoaded"]),
                        !.root = item]
    IN  _load_children(S1, item)

\* AssetTreeView._clear: QStandardItemModel.clear() deletes every item and makes a new
\* invisible root item
_clear(S) ==
    LET item == Len(S.items) + 1
        S1 == [S EXCEPT !.items = Append([i \in DOMAIN @ |-> Destroyed],
                                         [Item("") EXCEPT !.lstate = "NotLoaded"]),
                        !.root = item,
                        !.viewState = "Loading"]
    IN  _load_children(S1, item)

\* AssetTreeView._on_expanded
_on_expanded(S, parent_item) ==
    _load_children([S EXCEPT !.items[parent_item] = set_state(@, "Expanded")],
                   parent_item)

\* AssetTreeView._on_collapsed
_on_collapsed(S, parent_item) ==
    [S EXCEPT !.items[parent_item] = set_state(@, "Normal")]

(***************************************************************************)
(* AssetDetailsWidget and AssetLibraryWidget.                              *)
(***************************************************************************)
\* AssetDetailsWidget.state = state: entering Loading clears the labels
SetPanelState(p, state) ==
    IF state = p.state THEN p
    ELSE IF state \in {"Ready", "Empty"} THEN [p EXCEPT !.state = state]
    ELSE [state |-> state, shown |-> NoDetails]

\* the mutant of PanelReload that leaves the panel as it is when there are no details
PanelReload_stay(p, asset_details) ==
    IF asset_details.none THEN p
    ELSE SetPanelState([p EXCEPT !.shown = asset_details], "Ready")

\* AssetDetailsWidget.reload(asset_details)
PanelReload(p, asset_details) ==
    IF asset_details.none THEN SetPanelState(p, "Empty")
    ELSE SetPanelState([p EXCEPT !.shown = asset_details], "Ready")

\* AssetInfo.__eq__ of the dataclass: the fields are compared, not the identities
SameAssetInfo(a, b) == a = b

\* AssetLibraryWidget._on_item_clicked
_on_item_clicked(S, item) ==
    IF S.items[item].etype # "AssetName"
    THEN [S EXCEPT !.panel = PanelReload(@, NoDetails)]
    ELSE LET asset_info == S.items[item].data
             S1 == [S EXCEPT !.current_asset_info = asset_info]
         IN  IF ~S.objs[asset_info].details.none
             THEN [S1 EXCEPT !.panel = PanelReload(@, S.objs[asset_info].details)]
             ELSE execute([S1 EXCEPT !.panel = SetPanelState(@, "Loading")],
                          Request("details", item, "", asset_info))

\* the mutant of _on_asset_details_received that stores only what it displays
_on_asset_details_received_shown(S, asset_info, asset_details) ==
    IF ~SameAssetInfo([S.objs[S.current_asset_info] EXCEPT !.details = asset_details],
                      [S.objs[asset_info] EXCEPT !.details = asset_details])
    THEN S
    ELSE [S EXCEPT !.objs[asset_info].details = asset_details,
                   !.panel = PanelReload(@, asset_details)]

\* _on_asset_details_received, the closure of _on_item_clicked over asset_info
_on_asset_details_received(S, asset_info, asset_details) ==
    LET S1 == [S EXCEPT !.objs[asset_info].details = asset_details]
    IN  IF ~SameAssetInfo(S1.objs[S1.current_asset_info], S1.objs[asset_info])
        THEN S1
        ELSE [S1 EXCEPT !.panel = PanelReload(@, asset_details)]

(***************************************************************************)
(* ItemModel.data for the DecorationRole, and its closure _on_loaded.      *)
(***************************************************************************)
\* not item.icon(): the item has a null icon
IconMissing(item) == item.icon.null

\* whether data() requests the icon of the item
RequestsIcon(item) ==
    /\ IconMissing(item)
    /\ item.lstate # "InProgress"
    /\ item.etype = "AssetName"

\* the mutant of _on_loaded that sets the icon it is given, null or not
_on_loaded_no_fallback(its, item, icon) ==
    IF ~its[item].alive THEN its
    ELSE [its EXCEPT ![item] = [setIcon(@, icon, "Normal") EXCEPT !.lstate = "Loaded"]]

\* _on_loaded(icon), the closure of data() over item.  On an item that has been
\* deleted setIcon raises and nothing is changed.
_on_loaded(its, item, icon) ==
    IF ~its[item].alive THEN its
    ELSE [its EXCEPT ![item] =
            [setIcon(@, IF ~icon.null THEN icon ELSE AssetIcon, "Normal")
                EXCEPT !.lstate = "Loaded"]]

\* the effect on the items of the callbacks an IconManager method invoked
ApplyCalls(its, called) ==
    IF called = <<>> THEN its ELSE _on_loaded(its, called[1].callback, called[1].icon)

\* the reference to AssetInfo object number obj that is handed to the IconManager
InfoOf(S, obj) == AssetInfo(S.objs[obj], obj)

(***************************************************************************)
(* Specification Spec: the AssetLibraryWidget with its tree view, icon     *)
(* manager and details panel.                                              *)
(***************************************************************************)
Projects == {"1", "2"}

NoView ==
    [items |-> <<>>, root |-> 0, mapping |-> EmptyDict, viewState |-> "Loading",
     project |-> "1", pending |-> <<>>, objs |-> <<>>,
     current_asset_info |-> 0, panel |-> [state |-> "Empty", shown |-> NoDetails]]

\* the tree and the details panel of a program that has no AssetLibraryWidget
InitNoView ==
    /\ items = NoView.items /\ root = NoView.root /\ mapping = NoView.mapping
    /\ viewState = NoView.viewState /\ project = NoView.project
    /\ pending = NoView.pending /\ objs = NoView.objs
    /\ current_asset_info = NoView.current_asset_info /\ panel = NoView.panel
    /\ expandedIndexes = {} /\ currentItem = 0 /\ filterPattern = ""
    /\ calls = [reloads |-> 0, searches |-> 0, user |-> 0]

\* AssetLibraryWidget.__init__: the project of the context is set on the Accessor and
\* given to the AssetTreeView, whose __init__ ends with _clear()
Init ==
    LET S == _clear(NoView)
    IN  /\ items = S.items /\ root = S.root /\ mapping = S.mapping
        /\ viewState = S.viewState /\ project = S.project
        /\ pending = S.pending /\ objs = S.objs
        /\ current_asset_info = S.current_asset_info /\ panel = S.panel
        /\ expandedIndexes = {} /\ currentItem = 0 /\ filterPattern = ""
        /\ calls = [reloads |-> 0, searches |-> 0, user |-> 0]
        /\ InitIconManager
        /\ ev = NoEvent
        /\ InitNoSort /\ InitNoFilter /\ InitNoStop
        /\ acc_project = S.project
        /\ threadPool = {} /\ mainEvents = <<>> /\ requestLog = <<>>

\* the items that have a row in the view: the children of the root and the children of
\* its expanded children
Shown(item) ==
    /\ items[item].alive
    /\ item # root
    /\ \/ items[item].parent = root
       \/ /\ items[item].parent \in expandedIndexes
          /\ items[items[item].parent].parent = root

\* AssetTreeView._on_clicked: the user clicks the row of an item
Click ==
    \E item \in DOMAIN items :
        /\ Shown(item)
        /\ LET S1 == _on_item_clicked(View, item)
               expand == items[item].expandable /\ item \notin expandedIndexes
               collapse == items[item].expandable /\ item \in expandedIndexes
               S2 == IF expand THEN _on_expanded(_load_children(S1, item), item)
                     ELSE IF collapse THEN _on_collapsed(S1, item)
                     ELSE S1
           IN  /\ calls.user < MaxUserOps
               /\ SetView(S2)
               /\ expandedIndexes' = IF expand THEN expandedIndexes \cup {item}
                                     ELSE expandedIndexes \ {item}
        /\ currentItem' = item
        /\ calls' = [calls EXCEPT !.user = @ + 1]
        /\ UNCHANGED <<filterPattern, iconVars, unitVars, ev>>

\* the user expands a row by its arrow: the view emits expanded
Expand ==
    \E item \in DOMAIN items :
        /\ calls.user < MaxUserOps
        /\ Shown(item)
        /\ items[item].expandable
        /\ item \notin expandedIndexes
        /\ SetView(_on_expanded(View, item))
        /\ expandedIndexes' = expandedIndexes \cup {item}
        /\ calls' = [calls EXCEPT !.user = @ + 1]
        /\ UNCHANGED <<currentItem, filterPattern, iconVars, unitVars, ev>>

\* the user collapses a row by its arrow: the view emits collapsed
Collapse ==
    \E item \in DOMAIN items :
        /\ calls.user < MaxUserOps
        /\ Shown(item)
        /\ item \in expandedIndexes
        /\ SetView(_on_collapsed(View, item))
        /\ expandedIndexes' = expandedIndexes \ {item}
        /\ calls' = [calls EXCEPT !.user = @ + 1]
        /\ UNCHANGED <<currentItem, filterPattern, iconVars, unitVars, ev>>

\* ItemModel.data(index, DecorationRole): the view paints the row of an item that has
\* no icon and is not InProgress
DecorationQuery ==
    \E item \in DOMAIN items :
        /\ Shown(item)
        /\ RequestsIcon(items[item])
        /\ request_icon(item, InfoOf(View, items[item].data))
        /\ items' = ApplyCalls([items EXCEPT ![item].lstate = "InProgress",
                                              ![item].requested = @ + 1],
                               RequestIconCalls(item, InfoOf(View, items[item].data)))
        /\ UNCHANGED <<root, mapping, viewState, project, expandedIndexes, currentItem,
                       filterPattern, pending, objs, calls, detailsVars, unitVars, ev>>

\* AssetTreeView.load_by_regex(regex) with a pattern: the user presses return in the
\* filter line
LoadByRegex ==
    \E regex \in Regexes :
        /\ calls.searches < MaxSearches
        /\ calls.user < MaxUserOps
        /\ SetView(_load_children_by_regex([View EXCEPT !.viewState = "Loading"], regex))
        /\ filterPattern' = regex
        /\ calls' = [calls EXCEPT !.searches = @ + 1, !.user = @ + 1]
        /\ UNCHANGED <<expandedIndexes, currentItem, iconVars, unitVars, ev>>

\* AssetTreeView.load_by_regex() without a pattern: the user empties the filter line
LoadByRegexNone ==
    /\ calls.user < MaxUserOps
    /\ viewState' = "Ready"
    /\ filterPattern' = ""
    /\ calls' = [calls EXCEPT !.user = @ + 1]
    /\ UNCHANGED <<items, root, mapping, project, expandedIndexes, currentItem, pending,
                   objs, detailsVars, iconVars, unitVars, ev>>

\* AssetTreeView.reload: collapseAll emits collapsed for every expanded item, the
\* selection is cleared and _clear rebuilds the model
reload(S) == _clear(S)

\* the mutant of Reload that also clears the cache of the IconManager
Reload_clear_cache ==
    /\ calls.reloads < MaxReloads
    /\ calls.user < MaxUserOps
    /\ SetView(reload(View))
    /\ expandedIndexes' = {}
    /\ currentItem' = 0
    /\ calls' = [calls EXCEPT !.reloads = @ + 1, !.user = @ + 1]
    /\ clear_cache
    /\ UNCHANGED <<filterPattern, unitVars, ev>>

Reload ==
    /\ calls.reloads < MaxReloads
    /\ calls.user < MaxUserOps
    /\ SetView(reload(View))
    /\ expandedIndexes' = {}
    /\ currentItem' = 0
    /\ calls' = [calls EXCEPT !.reloads = @ + 1, !.user = @ + 1]
    /\ UNCHANGED <<filterPattern, iconVars, unitVars, ev>>

\* AssetTreeView.set_active_project(project)
SetActiveProject ==
    \E p \in Projects \ {project} :
        /\ calls.reloads < MaxReloads
        /\ calls.user < MaxUserOps
        /\ SetView(reload([View EXCEPT !.project = p]))
        /\ expandedIndexes' = {}
        /\ currentItem' = 0
        /\ calls' = [calls EXCEPT !.reloads = @ + 1, !.user = @ + 1]
        /\ UNCHANGED <<filterPattern, iconVars, unitVars, ev>>

\* Accessor.set_active_project(project) is called on the accessor of the widget
SetAccessorProject ==
    /\ calls.user < MaxUserOps
    /\ \E p \in Projects \ {acc_project} : Accessor_set_active_project(p)
    /\ calls' = [calls EXCEPT !.user = @ + 1]
    /\ UNCHANGED <<items, root, mapping, viewState, project, expandedIndexes, currentItem,
                   filterPattern, pending, objs, detailsVars, iconVars, sortVars,
                   filterVars, stopVars, ev>>

\* the requests in flight without request number i
RemoveAt(q, i) == [j \in 1..(Len(q) - 1) |-> IF j < i THEN q[j] ELSE q[j + 1]]

\* the state in which the runner of request number i has finished
Finished(i) == [View EXCEPT !.pending = RemoveAt(@, i)]

\* the rows of a query result become new AssetInfo objects
NewAssetInfos(S, rows) ==
    [S EXCEPT !.objs = @ \o [k \in 1..Len(rows) |->
                                [id |-> rows[k].id, type |-> rows[k].type,
                                 name |-> rows[k].name, details |-> NoDetails]]]
NewIds(S, rows) == [k \in 1..Len(rows) |-> Len(S.objs) + k]

\* RequestRunnable.run of a request_asset_types: _on_asset_types_loaded is invoked on
\* the UI thread
ResultTypes ==
    \E i \in DOMAIN pending :
        /\ pending[i].kind = "types"
        /\ \E asset_types \in AssetTypesResults :
             LET S == Finished(i)
             IN  SetView([_append_items(S, S.root, "AssetType", asset_types)
                            EXCEPT !.viewState = "Ready"])
        /\ UNCHANGED <<expandedIndexes, currentItem, filterPattern, calls, iconVars,
                       unitVars, ev>>

\* RequestRunnable.run of a request_assets: _append_asset_items is invoked on the UI
\* thread with the parent item the request was made for
ResultAssets ==
    \E i \in DOMAIN pending :
        /\ pending[i].kind = "assets"
        /\ \E rows \in AssetsResults(pending[i].arg) :
             LET S == Finished(i)
             IN  SetView(_append_asset_items(NewAssetInfos(S, rows), pending[i].item,
                                             "AssetName", NewIds(S, rows)))
        /\ UNCHANGED <<expandedIndexes, currentItem, filterPattern, calls, iconVars,
                       unitVars, ev>>

\* RequestRunnable.run of a request_assets_by_regex: _append_asset_items_by_regex is
\* invoked on the UI thread
ResultRegex ==
    \E i \in DOMAIN pending :
        /\ pending[i].kind = "regex"
        /\ \E rows \in {RegexResult(pending[i].arg), <<>>} :
             LET S == Finished(i)
             IN  SetView(_append_asset_items_by_regex(NewAssetInfos(S, rows),
                                                      NewIds(S, rows)))
        /\ UNCHANGED <<expandedIndexes, currentItem, filterPattern, calls, iconVars,
                       unitVars, ev>>

\* RequestRunnable.run of a request_asset_details: _on_asset_details_received is
\* invoked on the UI thread
ResultDetails ==
    \E i \in DOMAIN pending :
        /\ pending[i].kind = "details"
        /\ \E asset_details \in DetailsResults(objs[pending[i].obj].id) :
             SetView(_on_asset_details_received(Finished(i), pending[i].obj,
                                                asset_details))
        /\ UNCHANGED <<expandedIndexes, currentItem, filterPattern, calls, iconVars,
                       unitVars, ev>>

\* RequestRunnable.run when the request raises: logged, the callback is not invoked
RequestRaises ==
    \E i \in DOMAIN pending :
        /\ pending' = RemoveAt(pending, i)
        /\ UNCHANGED <<items, root, mapping, viewState, project, expandedIndexes,
                       currentItem, filterPattern, objs, calls, detailsVars, iconVars,
                       unitVars, ev>>

\* the loader threads of the tree's IconManager
TreeLoaderGet == LoaderGet /\ UNCHANGED <<treeVars, detailsVars, unitVars, ev>>

TreeLoaderEmit ==
    \E w \in Loading :
      \E pixmap \in {PixmapOf(loaders[w].info), NullPixmap} :
        /\ LoaderEmit(w, pixmap)
        /\ UNCHANGED <<treeVars, detailsVars, unitVars, ev>>

TreeLoaderFail ==
    \E w \in Loading :
        /\ LoaderFail(w)
        /\ UNCHANGED <<treeVars, detailsVars, unitVars, ev>>

\* the UI thread runs _on_pixmap_loaded for the oldest posted signal; the callback it
\* invokes is the _on_loaded of an item
TreeDeliver ==
    /\ posted # <<>>
    /\ _on_pixmap_loaded(Head(posted).info, Head(posted).pixmap)
    /\ posted' = Tail(posted)
    /\ items' = ApplyCalls(items, OnPixmapLoadedCalls(Head(posted).info,
                                                      Head(posted).pixmap))
    /\ UNCHANGED <<root, mapping, viewState, project, expandedIndexes, currentItem,
                   filterPattern, pending, objs, calls, detailsVars, unitVars, ev>>

Next ==
    \/ Click
    \/ Expand
    \/ Collapse
    \/ DecorationQuery
    \/ LoadByRegex
    \/ LoadByRegexNone
    \/ Reload
    \/ SetActiveProject
    \/ SetAccessorProject
    \/ ResultTypes
    \/ ResultAssets
    \/ ResultRegex
    \/ ResultDetails
    \/ RequestRaises
    \/ TreeLoaderGet
    \/ TreeLoaderEmit
    \/ TreeLoaderFail
    \/ TreeDeliver

Spec == Init /\ [][Next]_vars

\* the loader threads and the UI thread go on running: a get on a queue that is not
\* empty returns, a fetch returns or raises, and a posted signal is delivered
SpecFair ==
    /\ Spec
    /\ WF_vars(TreeLoaderGet)
    /\ WF_vars(TreeLoaderEmit \/ TreeLoaderFail)
    /\ WF_vars(TreeDeliver)

(***************************************************************************)
(* Specification SpecIcon: an IconManager used on its own, by callers that *)
(* hand it any of NumCallbacks callbacks.                                  *)
(***************************************************************************)
Callbacks == 1..NumCallbacks
IconAssets == {AssetInfo(a, a.id) : a \in Catalog}
InitIcon ==
    /\ InitIconManager
    /\ ev = NoEvent
    /\ InitNoSort /\ InitNoFilter /\ InitNoAccessor /\ InitNoStop
    /\ InitNoView

IconRequest ==
    \E callback \in Callbacks, asset_info \in IconAssets :
        /\ hist.total < MaxIconCalls
        /\ request_icon(callback, asset_info)
        /\ ev' = [op |-> "request_icon", id |-> asset_info.id, cb |-> callback,
                  called |-> RequestIconCalls(callback, asset_info)]
        /\ UNCHANGED <<unitVars, treeVars, detailsVars>>

IconLoaderGet ==
    /\ LoaderGet
    /\ ev' = [op |-> "get", id |-> LifoGet(queue).info.id, cb |-> 0, called |-> <<>>]
    /\ UNCHANGED <<unitVars, treeVars, detailsVars>>

IconLoaderEmit ==
    \E w \in Loading :
      \E pixmap \in {PixmapOf(loaders[w].info), NullPixmap} :
        /\ LoaderEmit(w, pixmap)
        /\ ev' = [op |-> "emit", id |-> loaders[w].info.id, cb |-> 0, called |-> <<>>]
        /\ UNCHANGED <<unitVars, treeVars, detailsVars>>

IconLoaderFail ==
    \E w \in Loading :
        /\ LoaderFail(w)
        /\ ev' = [op |-> "fail", id |-> loaders[w].info.id, cb |-> 0, called |-> <<>>]
        /\ UNCHANGED <<unitVars, treeVars, detailsVars>>

IconDeliver ==
    /\ posted # <<>>
    /\ _on_pixmap_loaded(Head(posted).info, Head(posted).pixmap)
    /\ posted' = Tail(posted)
    /\ ev' = [op |-> "_on_pixmap_loaded", id |-> Head(posted).info.id, cb |-> 0,
              called |-> OnPixmapLoadedCalls(Head(posted).info, Head(posted).pixmap)]
    /\ UNCHANGED <<unitVars, treeVars, detailsVars>>

IconClearCache ==
    /\ hist.clears < MaxClears
    /\ clear_cache
    /\ ev' = [op |-> "clear_cache", id |-> 0, cb |-> 0, called |-> <<>>]
    /\ UNCHANGED <<unitVars, treeVars, detailsVars>>

NextIcon ==
    \/ IconRequest
    \/ IconLoaderGet
    \/ IconLoaderEmit
    \/ IconLoaderFail
    \/ IconDeliver
    \/ IconClearCache

SpecIcon == InitIcon /\ [][NextIcon]_vars

\* the loader threads go on running: a get on a queue that is not empty returns, and a
\* fetch returns or raises
SpecIconFair ==
    /\ SpecIcon
    /\ WF_vars(IconLoaderGet)
    /\ WF_vars(IconLoaderEmit \/ IconLoaderFail)

(***************************************************************************)
(* Specification SpecSort: the comparator applied to every pair of keys.   *)
(***************************************************************************)
InitSort ==
    /\ sortLeft \in Keys
    /\ sortRight = <<>>
    /\ sortCalled = FALSE
    /\ sortLess = FALSE
    /\ InitIconManager
    /\ InitNoView
    /\ InitNoFilter
    /\ InitNoAccessor
    /\ InitNoStop
    /\ ev = NoEvent

\* the proxy compares the row whose key is sortLeft with a row of any other key
LessThanCall ==
    /\ ~sortCalled
    /\ \E right_sort_data \in Keys :
        /\ sortRight' = right_sort_data
        /\ sortLess' = lessThan(sortLeft, right_sort_data)
    /\ sortCalled' = TRUE
    /\ UNCHANGED <<sortLeft, filterVars, accessorVars, stopVars, iconVars, ev, treeVars,
                   detailsVars>>

NextSort == LessThanCall

SpecSort == InitSort /\ [][NextSort]_vars

(***************************************************************************)
(* Specification SpecFilter: the proxy filters a tree of items by a        *)
(* pattern.                                                                *)
(***************************************************************************)
FilterLabels == {<<"v">>, <<"V", "i">>, <<"m">>}
PatternAlphabet == {"v", "V", "i", "?", "*"}

RECURSIVE PatternsUpTo(_)
PatternsUpTo(n) ==
    IF n = 0 THEN {<<>>}
    ELSE LET shorter == PatternsUpTo(n - 1)
         IN  shorter \cup {Append(rx, c) : rx \in shorter, c \in PatternAlphabet}

\* the source models: one or two type items under the root of project "1", each with
\* any of the labels as asset items
FilterSources ==
    LET TypeKeys == {<<<<"1">>, t>> : t \in FilterLabels}
        LeafKeys == {<<<<"1">>, t, l>> : t \in FilterLabels, l \in FilterLabels}
    IN  {types \cup leaves :
            types \in (SUBSET TypeKeys) \ {{}},
            leaves \in SUBSET LeafKeys} 

InitFilter ==
    /\ filterSource \in {source \in FilterSources :
                            \A key \in source :
                                Len(key) = 3 => SubSeq(key, 1, 2) \in source}
    /\ filterRegExp = <<>>
    /\ filterCalled = FALSE
    /\ filterRows = {}
    /\ InitNoSort
    /\ InitNoAccessor
    /\ InitNoStop
    /\ InitIconManager
    /\ InitNoView
    /\ ev = NoEvent

\* setFilterWildcard(pattern): the proxy filters its source again
SetFilterWildcard ==
    /\ ~filterCalled
    /\ \E pattern \in PatternsUpTo(MaxPatternLen) :
        /\ filterRegExp' = pattern
        /\ filterRows' = ProxyRows(filterSource, pattern)
    /\ filterCalled' = TRUE
    /\ UNCHANGED <<filterSource, sortVars, accessorVars, stopVars, iconVars, ev, treeVars,
                   detailsVars>>

NextFilter == SetFilterWildcard

SpecFilter == InitFilter /\ [][NextFilter]_vars

(***************************************************************************)
(* Specification SpecAccessor: calls on the hook accessor, the thread pool *)
(* that runs the requests and the main thread that runs the callbacks.     *)
(***************************************************************************)
InitAccessor ==
    /\ InitNoAccessor
    /\ InitNoSort
    /\ InitNoFilter
    /\ InitNoStop
    /\ InitIconManager
    /\ InitNoView
    /\ ev = NoEvent

UnchangedByAccessor ==
    UNCHANGED <<sortVars, filterVars, stopVars, iconVars, ev, treeVars, detailsVars>>

\* Accessor.set_active_project(project) is called with another project
AccessorSetActiveProject ==
    /\ \E p \in Projects \ {acc_project} : Accessor_set_active_project(p)
    /\ UnchangedByAccessor

\* one of the four request methods is called from the main thread and returns:
\* RequestRunnable.execute starts the runnable on the global thread pool
AccessorRequest ==
    /\ Len(requestLog) < MaxRequests
    /\ \E kind \in RequestKinds :
        LET dispatched == HasProject(kind, acc_project)
        IN  /\ requestLog' = Append(requestLog, LogEntry(kind, dispatched))
            /\ threadPool' = IF dispatched THEN threadPool \cup {Len(requestLog) + 1}
                             ELSE threadPool
    /\ UNCHANGED <<acc_project, mainEvents>>
    /\ UnchangedByAccessor

\* a pool thread runs a RequestRunnable
RunnableRun ==
    \E n \in threadPool :
        \E hook \in HookOutcomes(requestLog[n].kind) :
            LET done == run(_request(requestLog[n].kind, hook))
                thread == InvokeThread("pool")
            IN  /\ threadPool' = threadPool \ {n}
                /\ requestLog' = [requestLog EXCEPT ![n].hook = hook, ![n].ran = TRUE,
                                                    ![n].raised = done.raised]
                /\ mainEvents' =
                    IF done.invoke
                    THEN Append(mainEvents, [request |-> n, result |-> done.result,
                                             thread |-> thread])
                    ELSE mainEvents
                /\ UNCHANGED acc_project
                /\ UnchangedByAccessor

\* InvokeMethod.execute: the callback is called with the result
InvokeMethodExecute ==
    /\ mainEvents # <<>>
    /\ LET e == Head(mainEvents)
       IN  requestLog' = [requestLog EXCEPT ![e.request].invoked = @ + 1,
                                            ![e.request].thread = e.thread,
                                            ![e.request].result = e.result]
    /\ mainEvents' = Tail(mainEvents)
    /\ UNCHANGED <<acc_project, threadPool>>
    /\ UnchangedByAccessor

\* a worker calls load_asset_icon_pixmap, which returns or raises in the worker
AccessorLoadPixmap ==
    /\ Len(requestLog) < MaxRequests
    /\ \E hook \in HookOutcomes("load_asset_icon_pixmap") :
        LET done == load_asset_icon_pixmap(hook)
        IN  requestLog' = Append(requestLog,
                [LogEntry("load_asset_icon_pixmap", FALSE) EXCEPT
                    !.hook = hook, !.ran = TRUE, !.raised = done.exc,
                    !.result = done.value, !.waited = TRUE])
    /\ UNCHANGED <<acc_project, threadPool, mainEvents>>
    /\ UnchangedByAccessor

NextAccessor ==
    \/ AccessorSetActiveProject
    \/ AccessorRequest
    \/ RunnableRun
    \/ InvokeMethodExecute
    \/ AccessorLoadPixmap

SpecAccessor == InitAccessor /\ [][NextAccessor]_vars

(***************************************************************************)
(* Specification SpecStop: the loaders of an IconManager and its shutdown. *)
(* SpecStopFair adds that the main thread and every loader thread go on    *)
(* running, and that every fetch returns.                                  *)
(***************************************************************************)
\* the assets in the queue at the start
MaxQueued == 2

QueuedJob(k) ==
    LET a == CHOOSE x \in Catalog : x.id = ((k - 1) % Cardinality(Catalog)) + 1
    IN  [info |-> AssetInfo(a, a.id), seq |-> k]

InitStop ==
    /\ InitNoStop
    /\ \E n \in 0..MaxQueued : queue = [k \in 1..n |-> QueuedJob(k)]
    /\ loaded_icons = EmptyDict /\ requests = EmptyDict
    /\ loaders = [w \in Loaders |-> NoJob]
    /\ posted = <<>>
    /\ hist = [calls |-> ZeroCounts, puts |-> ZeroCounts, fetches |-> ZeroCounts,
               clears |-> 0, seq |-> MaxQueued, total |-> 0, first |-> ZeroCounts, invoked |-> ZeroCounts]
    /\ InitNoSort /\ InitNoFilter /\ InitNoAccessor
    /\ InitNoView
    /\ ev = NoEvent

UnchangedByStop ==
    UNCHANGED <<sortVars, filterVars, accessorVars, ev, treeVars, detailsVars>>

WorkerStep(w) ==
    \/ WorkerTest(w)
    \/ WorkerGet(w)
    \/ WorkerEmpty(w)
    \/ WorkerEmit(w)
    \/ WorkerFail(w)

StopperStep ==
    \/ StopBegin
    \/ StopStop
    \/ StopExit
    \/ StopWait

NextStop ==
    \/ \E w \in Loaders : WorkerTest(w) /\ UnchangedByStop
    \/ \E w \in Loaders : WorkerGet(w) /\ UnchangedByStop
    \/ \E w \in Loaders : WorkerEmpty(w) /\ UnchangedByStop
    \/ \E w \in Loaders : WorkerEmit(w) /\ UnchangedByStop
    \/ \E w \in Loaders : WorkerFail(w) /\ UnchangedByStop
    \/ StopBegin /\ UnchangedByStop
    \/ StopStop /\ UnchangedByStop
    \/ StopExit /\ UnchangedByStop
    \/ StopWait /\ UnchangedByStop

SpecStop == InitStop /\ [][NextStop]_vars

SpecStopFair ==
    /\ SpecStop
    /\ WF_vars(StopperStep /\ stopper.at # "idle" /\ UnchangedByStop)
    /\ \A w \in Loaders : WF_vars(WorkerStep(w) /\ UnchangedByStop)

(***************************************************************************)
(* Claims about the hook accessor and RequestRunnable.                     *)
(***************************************************************************)
\* the call is over: its runnable is not waiting in the pool and no callback of it
\* is queued for the main thread
Settled(n) ==
    /\ n \notin threadPool
    /\ \A i \in DOMAIN mainEvents : mainEvents[i].request # n

Queued(n, result) ==
    \E i \in DOMAIN mainEvents :
        /\ mainEvents[i].request = n
        /\ mainEvents[i].result = result
        /\ mainEvents[i].thread = "main"

\* the result is on its way to the callback in the main thread, or was given to it
Delivers(n, result) ==
    \/ Queued(n, result) /\ requestLog[n].invoked = 0
    \/ /\ Settled(n)
       /\ requestLog[n].invoked = 1
       /\ requestLog[n].thread = "main"
       /\ requestLog[n].result = result

\* C12: every call of the four request methods returns without waiting and, once the
\* work it started is over, has invoked its callback exactly once, in the main thread
C12_CallbackExactlyOnce ==
    \A n \in DOMAIN requestLog :
        requestLog[n].kind \in RequestKinds =>
            /\ ~requestLog[n].waited
            /\ requestLog[n].invoked <= 1
            /\ Settled(n) => requestLog[n].invoked = 1 /\ requestLog[n].thread = "main"

\* C13: when the unit of work raised, run() raises nothing and the callback is neither
\* queued nor invoked; when it returned, its result goes to the callback in the main
\* thread, once
C13_RaisingWorkNeverCallsBack ==
    \A n \in DOMAIN requestLog :
        (requestLog[n].kind \in RequestKinds /\ requestLog[n].ran) =>
            LET work == _request(requestLog[n].kind, requestLog[n].hook)
            IN  /\ requestLog[n].raised = ""
                /\ work.exc # "" => Settled(n) /\ requestLog[n].invoked = 0
                /\ work.exc = "" => Delivers(n, work.value)

C13_Witness ==
    \E n, m \in DOMAIN requestLog :
        /\ requestLog[n].kind \in RequestKinds /\ requestLog[m].kind \in RequestKinds
        /\ requestLog[n].ran /\ requestLog[n].hook.exc = "Exception"
        /\ requestLog[n].invoked = 0 /\ Settled(n)
        /\ requestLog[m].ran /\ requestLog[m].hook.exc = ""
        /\ requestLog[m].invoked = 1 /\ requestLog[m].thread = "main"

\* C14: when the hook is not registered, the three list requests deliver an empty list
\* and request_asset_details delivers None to the callback; load_asset_icon_pixmap
\* returns None and does not raise
C14_MissingHookGivesEmptyResult ==
    \A n \in DOMAIN requestLog :
        (requestLog[n].ran /\ requestLog[n].hook.exc \in HookMissing) =>
            /\ requestLog[n].raised = ""
            /\ requestLog[n].kind \in ListKinds => Delivers(n, List(<<>>))
            /\ requestLog[n].kind = "request_asset_details" => Delivers(n, None)
            /\ requestLog[n].kind = "load_asset_icon_pixmap" => requestLog[n].result = None

C14_Witness ==
    \E n, m, k \in DOMAIN requestLog :
        /\ \A i \in {n, m, k} : requestLog[i].ran /\ requestLog[i].hook.exc \in HookMissing
        /\ requestLog[n].kind \in ListKinds
        /\ requestLog[n].invoked = 1 /\ requestLog[n].result = List(<<>>)
        /\ requestLog[m].kind = "request_asset_details"
        /\ requestLog[m].invoked = 1 /\ requestLog[m].result = None
        /\ requestLog[k].kind = "load_asset_icon_pixmap"
        /\ requestLog[k].result = None /\ requestLog[k].raised = ""

(***************************************************************************)
(* Claims about the filter of the proxy.                                   *)
(***************************************************************************)
MatchesKey(rx, key) == indexIn(rx, KeyText(key)) # -1

Descendants(source, key) ==
    {d \in source : Len(d) > Len(key) /\ SubSeq(d, 1, Len(key)) = key}

IsLiteral(rx) == \A p \in 1..Len(rx) : rx[p] \notin {"?", "*"}

LowerCased(c) == IF c \in Upper THEN ToLower[c] ELSE c

\* the text contains the pattern when the case of the letters is ignored
ContainsIgnoringCase(rx, str) ==
    \E i \in 1..(Len(str) + 1) :
        /\ i + Len(rx) - 1 <= Len(str)
        /\ \A p \in 1..Len(rx) : LowerCased(rx[p]) = LowerCased(str[i + p - 1])

\* C11: with a non-empty pattern a row is in the proxy exactly when the pattern matches
\* its own key or the key of one of its descendants, and a pattern without wildcard
\* characters matches a key exactly when the key contains it, the case ignored
C11_VisibleIffSelfOrDescendantMatches ==
    (filterCalled /\ filterRegExp # <<>>) =>
        \A key \in filterSource :
            /\ key \in filterRows <=>
                \/ MatchesKey(filterRegExp, key)
                \/ \E d \in Descendants(filterSource, key) : MatchesKey(filterRegExp, d)
            /\ IsLiteral(filterRegExp) =>
                (MatchesKey(filterRegExp, key)
                    <=> ContainsIgnoringCase(filterRegExp, KeyText(key)))

\* a leaf that matches in another case keeps its type item, which does not match, in
\* the proxy, and a leaf next to it that does not match is filtered out
C11_Witness ==
    /\ filterCalled
    /\ filterRegExp = <<"v", "i">>
    /\ \E leaf \in filterRows, other \in filterSource \ filterRows :
        /\ Len(leaf) = 3 /\ Len(other) = 3
        /\ leaf[3] = <<"V", "i">>
        /\ SubSeq(other, 1, 2) = SubSeq(leaf, 1, 2)
        /\ ~MatchesKey(filterRegExp, SubSeq(leaf, 1, 2))
        /\ SubSeq(leaf, 1, 2) \in filterRows

(***************************************************************************)
(* Claims about the comparator.                                            *)
(***************************************************************************)
Letters == Lower \cup Upper

\* length of the longest prefix of s made of letters only
RECURSIVE LetterRun(_, _)
LetterRun(s, i) == IF i <= Len(s) /\ s[i] \in Letters THEN 1 + LetterRun(s, i + 1) ELSE 0

\* s is letters followed by a non-empty run of digits, as "v10" is
IsNameNumber(s) ==
    LET k == LetterRun(s, 1)
    IN  k < Len(s) /\ DigitRun(s, k + 1) = Len(s) - k

NamePart(s) == SubSeq(s, 1, LetterRun(s, 1))
NumberPart(s) == DecimalValue(SubSeq(s, LetterRun(s, 1) + 1, Len(s)))

v2 == <<"v", "2">>
v10 == <<"v", "1", "0">>
v100 == <<"v", "1", "0", "0">>
item2 == <<"i", "t", "e", "m", "2">>
item10 == <<"i", "t", "e", "m", "1", "0">>

\* the keys the claim names: "v2" < "v10" < "v100" and "item2" < "item10"
C9_Named ==
    /\ TupleGreater(_human_key(v10), _human_key(v2))
    /\ TupleGreater(_human_key(v100), _human_key(v10))
    /\ TupleGreater(_human_key(item10), _human_key(item2))
    /\ ~TupleGreater(_human_key(v2), _human_key(v10))
    /\ ~TupleGreater(_human_key(v10), _human_key(v100))
    /\ ShownAbove(v2, v10) /\ ShownAbove(v10, v100) /\ ShownAbove(item2, item10)
    /\ ~ShownAbove(v10, v2) /\ ~ShownAbove(v100, v10) /\ ~ShownAbove(v100, v2)

\* C9: numeric runs are compared by value, not character by character: the key of
\* "v2" is below the key of "v10", which is below the key of "v100", "item2" is
\* below "item10", and the view shows them in that ascending order; for any two keys
\* made of the same letters followed by a number, lessThan returns whether the left
\* number is the greater one.
C9_NumericRunsByValue ==
    /\ C9_Named
    /\ (sortCalled /\ IsNameNumber(sortLeft) /\ IsNameNumber(sortRight)
            /\ NamePart(sortLeft) = NamePart(sortRight))
        => (sortLess <=> NumberPart(sortLeft) > NumberPart(sortRight))

\* lessThan has compared "v10" with "v1", and "100" with "11", and found the left key
\* the greater one
C9_Witness ==
    /\ sortCalled
    /\ sortLess = TRUE
    /\ \/ sortLeft = v10 /\ sortRight = <<"v", "1">>
       \/ sortLeft = <<"1", "0", "0">> /\ sortRight = <<"1", "1">>

\* a and b have the same characters up to the case of their letters
SameUpToCase(a, b) == swapcase_fold(a) = swapcase_fold(b)

\* C10 as stated: text runs are compared case-folded, so two keys that differ only in
\* letter case have equal natural keys and lessThan is false in both directions.
C10_CaseFoldedAsStated ==
    (sortCalled /\ SameUpToCase(sortLeft, sortRight))
        => /\ _human_key(sortLeft) = _human_key(sortRight)
           /\ ~sortLess
           /\ ~lessThan(sortRight, sortLeft)

\* C10 amended: text runs are compared with their case swapped, not folded: two
\* different keys that differ only in letter case have different natural keys and
\* lessThan is true in exactly one direction, the one whose left key has the
\* upper-case letter at the first place where the two keys differ.
C10_CaseSwapped ==
    (sortCalled /\ SameUpToCase(sortLeft, sortRight) /\ sortLeft # sortRight)
        => /\ _human_key(sortLeft) # _human_key(sortRight)
           /\ sortLess # lessThan(sortRight, sortLeft)
           /\ sortLess <=> sortLeft[FirstDiff(sortLeft, sortRight, 1)] \in Upper

\* lessThan has compared "V" with "v": it is true this way round
C10_Witness == sortCalled /\ sortLeft = <<"V">> /\ sortRight = <<"v">> /\ sortLess = TRUE

(***************************************************************************)
(* Claims about the IconManager.                                           *)
(***************************************************************************)
\* the number of places of sequence q that satisfy Test
Count(q, Test(_)) == Cardinality({i \in 1..Len(q) : Test(q[i])})

\* fetches of asset_id that are queued, running in a loader, or emitted and not yet
\* delivered to _on_pixmap_loaded
Outstanding(asset_id) ==
    LET Is(e) == e.info.id = asset_id
    IN  Count(queue, Is) + Cardinality({w \in Loading : Is(loaders[w])}) + Count(posted, Is)

\* C1: when request_icon has been called two or more times for an asset id that is
\* still uncached, with no clear_cache since the first of these calls, the asset has
\* been put on the queue exactly once; and while no clear_cache has happened at all,
\* no asset is put or fetched more than once.
C1_EnqueuedOnce ==
    \A asset_id \in AssetIds :
        /\ (~IsCached(asset_id) /\ hist.calls[asset_id] >= 2) => hist.puts[asset_id] = 1
        /\ hist.clears = 0 =>
            /\ hist.puts[asset_id] <= 1
            /\ hist.fetches[asset_id] <= hist.puts[asset_id]
            /\ Outstanding(asset_id) <= 1

\* request_icon was called twice for an uncached id, whose one fetch is running
C1_Witness ==
    \E asset_id \in AssetIds :
        /\ hist.clears = 0
        /\ ~IsCached(asset_id)
        /\ hist.calls[asset_id] >= 2
        /\ hist.puts[asset_id] = 1
        /\ hist.fetches[asset_id] = 1
        /\ \E w \in Loading : loaders[w].info.id = asset_id

\* C2: a request_icon call for an id that is in the cache invokes the caller's
\* callback with the cached icon, once, before it returns, and changes neither the
\* queue nor the pending-request map (nor the cache).
C2_CachedIsSynchronous ==
    [][(ev'.op = "request_icon" /\ ev'.id \in DOMAIN loaded_icons)
        => /\ ev'.called = <<Call(ev'.cb, loaded_icons[ev'.id])>>
           /\ queue' = queue
           /\ requests' = requests
           /\ loaded_icons' = loaded_icons]_vars

\* a request_icon call has just been answered from the cache
C2_Witness ==
    /\ ev.op = "request_icon"
    /\ ev.id \in DOMAIN loaded_icons
    /\ ev.called = <<Call(ev.cb, loaded_icons[ev.id])>>

\* C3 as stated: in every reachable state, clear_cache included, each asset id has at
\* most one fetch outstanding.
C3_OneOutstandingFetch == \A asset_id \in AssetIds : Outstanding(asset_id) <= 1

\* C4: a loader that dequeues takes the entry that was put last among those in the
\* queue, and leaves the older ones in the queue.
C4_LastInFirstOut ==
    [][ev'.op = "get"
        => \E w \in Loaders :
            /\ loaders[w] = NoJob
            /\ loaders'[w] # NoJob
            /\ \A i \in 1..Len(queue) : queue[i].seq <= loaders'[w].seq
            /\ \E i \in 1..Len(queue) :
                /\ queue[i] = loaders'[w]
                /\ queue' = [j \in 1..(Len(queue) - 1) |->
                                IF j < i THEN queue[j] ELSE queue[j + 1]]]_vars

\* a loader has just taken the newest of several queued assets: older ones remain
C4_Witness ==
    /\ ev.op = "get"
    /\ queue # <<>>
    /\ \E w \in Loading : \A i \in 1..Len(queue) : queue[i].seq < loaders[w].seq

(***************************************************************************)
(* Claims about the tree view and the details panel.                       *)
(***************************************************************************)
\* C5 as stated: when the details fetch made for a click on asset node A delivers
\* details while the node clicked last is another node B (a type node, or the node of
\* another asset), the details of A are not shown: the panel stays as it is.
C5_LateDetailsNotShown ==
    [][\A i \in DOMAIN pending :
        LET r == pending[i]
        IN  (/\ r.kind = "details"
             /\ pending' = RemoveAt(pending, i)
             /\ objs[r.obj].details.none
             /\ ~objs'[r.obj].details.none
             /\ currentItem # 0
             /\ currentItem # r.item
             /\ items[currentItem].etype = "AssetName"
                    => objs[items[currentItem].data].id # objs[r.obj].id)
            => /\ panel' = panel
               /\ ~(panel'.state = "Ready" /\ panel'.shown = objs'[r.obj].details)]_vars

\* the place of a loading state in the order NotLoaded, InProgress, Loaded
Rank(lstate) ==
    IF lstate = "NotLoaded" THEN 1
    ELSE IF lstate = "InProgress" THEN 2
    ELSE IF lstate = "Loaded" THEN 3
    ELSE 0

\* C6: in no step does the loading state of an item that lives through the step move
\* backwards in the order NotLoaded, InProgress, Loaded; a Loaded item stays Loaded.
C6_LoadingStateNeverRegresses ==
    [][\A item \in DOMAIN items :
        (items[item].alive /\ items'[item].alive)
            => /\ Rank(items[item].lstate) >= 1
               /\ Rank(items'[item].lstate) >= Rank(items[item].lstate)]_vars

\* an asset item is Loaded with its fetched icon, under a type item that is Loaded and
\* has been collapsed again
C6_Witness ==
    \E item \in DOMAIN items :
        /\ items[item].alive
        /\ items[item].etype = "AssetName"
        /\ items[item].lstate = "Loaded"
        /\ items[item].icon.src = "pixmap"
        /\ items[items[item].parent].lstate = "Loaded"
        /\ items[item].parent \notin expandedIndexes

\* C7: for every live item at most one children request has been dispatched, and
\* _load_children on an item that is InProgress or Loaded changes nothing.
C7_OneChildrenRequest ==
    \A item \in DOMAIN items :
        items[item].alive
            => /\ items[item].dispatched <= 1
               /\ items[item].lstate # "NotLoaded" => _load_children(View, item) = View

\* a type item was expanded, collapsed and expanded again while its only children
\* request is in flight
C7_Witness ==
    \E item \in DOMAIN items :
        /\ items[item].alive
        /\ items[item].etype = "AssetType"
        /\ items[item].lstate = "InProgress"
        /\ items[item].dispatched = 1
        /\ item \in expandedIndexes
        /\ calls = [reloads |-> 0, searches |-> 0, user |-> 3]
        /\ \E i \in DOMAIN pending : pending[i].kind = "assets" /\ pending[i].item = item

\* the live items other than the root
LiveItems == {item \in DOMAIN items : items[item].alive /\ item # root}

\* C8: no two live items have the same key, and _append_item for the key of a live
\* item returns that item and adds nothing.
C8_KeysAreUnique ==
    \A item \in LiveItems :
        /\ \A other \in LiveItems : items[other].key = items[item].key => other = item
        /\ LET r == _append_item(View, items[item].parent, items[item].text,
                                 items[item].etype, items[item].expandable)
           IN  r.item = item /\ r.S = View

\* a search result made the type item and the item of one asset, and the expansion
\* result of the type item then brought that asset again: three AssetInfo objects
\* were delivered and there are two asset items
C8_Witness ==
    /\ Len(objs) = 3
    /\ calls.reloads = 0
    /\ Cardinality({item \in LiveItems : items[item].etype = "AssetName"}) = 2
    /\ Cardinality({item \in LiveItems : items[item].etype = "AssetType"}) = 1
    /\ \A item \in LiveItems : items[item].etype = "AssetType" => items[item].lstate = "Loaded"

\* C15: when a worker's fetch ends, a result for the asset is posted to the manager or
\* the item that requested the icon has the fallback icon and is Loaded: a fetch that
\* fails does not leave the item InProgress
C15_FailedFetchGivesFallback ==
    [][\A w \in Loaders :
        (loaders[w] # NoJob /\ loaders'[w] = NoJob) =>
            LET id == loaders[w].info.id
            IN  \/ /\ Len(posted') = Len(posted) + 1
                   /\ posted'[Len(posted')].info.id = id
                \/ /\ id \in DOMAIN requests
                   /\ items'[requests[id]].alive
                   /\ items'[requests[id]].lstate = "Loaded"
                   /\ items'[requests[id]].icon = AssetIcon]_vars

C17_DeliveryCachesAndDispatches ==
    [][ev'.op = "_on_pixmap_loaded" =>
        LET id == Head(posted).info.id
            icon == QIcon(Head(posted).pixmap)
        IN  /\ id \in DOMAIN loaded_icons'
            /\ loaded_icons'[id] = icon
            /\ \A x \in DOMAIN loaded_icons' \ {id} :
                x \in DOMAIN loaded_icons /\ loaded_icons'[x] = loaded_icons[x]
            /\ DOMAIN loaded_icons \subseteq DOMAIN loaded_icons'
            /\ requests' = requests
            /\ ev'.called = IF id \in DOMAIN requests
                            THEN <<Call(requests[id], icon)>>
                            ELSE <<>>]_vars

\* the second of two fetches of an asset has been delivered to the registered callback
C17_Witness ==
    /\ ev.op = "_on_pixmap_loaded"
    /\ hist.fetches[ev.id] = 2
    /\ queue = <<>> /\ posted = <<>> /\ Loading = {}
    /\ Len(ev.called) = 1
    /\ ev.called[1].icon = loaded_icons[ev.id]
    /\ ~ev.called[1].icon.null

\* C18: clear_cache empties the cache and the pending requests and leaves the queue, the
\* loaders and the posted results; the delivery of a fetch that was requested before the
\* clear puts its icon in the cache and invokes no callback registered before the clear:
\* none at all when the asset was not requested since, else the one registered since
C18_ClearCacheKeepsFetches ==
    [][/\ ev'.op = "clear_cache" =>
            /\ loaded_icons' = EmptyDict /\ requests' = EmptyDict
            /\ queue' = queue /\ loaders' = loaders /\ posted' = posted
       /\ (ev'.op = "_on_pixmap_loaded" /\ hist.clears > 0) =>
            /\ loaded_icons'[ev'.id] = QIcon(Head(posted).pixmap)
            /\ hist.puts[ev'.id] = 0 => ev'.called = <<>>
            /\ \A i \in DOMAIN ev'.called :
                /\ hist.puts[ev'.id] > 0
                /\ ev'.called[i].callback = hist.first[ev'.id]]_vars

\* the fetch of an asset that was not requested since the clear has been delivered: the
\* icon is cached and no callback was invoked
C18_Witness ==
    /\ ev.op = "_on_pixmap_loaded"
    /\ hist.clears = 1
    /\ hist.puts[ev.id] = 0 /\ hist.calls[ev.id] = 0
    /\ ev.called = <<>>
    /\ ev.id \in DOMAIN loaded_icons /\ ~loaded_icons[ev.id].null
    /\ requests = EmptyDict

\* the live items of an entity type with this label under this parent, after the step
ChildrenNamed(its, parent, entity_type, label) ==
    {c \in DOMAIN its : /\ its[c].alive
                        /\ its[c].parent = parent
                        /\ its[c].etype = entity_type
                        /\ its[c].text = label}

\* C19: a step that ends a regex request either leaves the view as it is (the request
\* raised) or leaves the view Ready; for every asset the result brought, the root has then
\* exactly one asset-type item with the asset's type and this item has exactly one
\* asset item with the asset's name
C19_RegexResultBuildsBranch ==
    [][\A i \in DOMAIN pending :
        (pending[i].kind = "regex" /\ pending' = RemoveAt(pending, i)) =>
            /\ viewState' = "Ready" \/ UNCHANGED <<items, viewState, objs, mapping>>
            /\ \A k \in (Len(objs) + 1)..Len(objs') :
                LET types == ChildrenNamed(items', root', "AssetType", objs'[k].type)
                IN  /\ Cardinality(types) = 1
                    /\ \A t \in types :
                        Cardinality(ChildrenNamed(items', t, "AssetName",
                                                  objs'[k].name)) = 1]_vars

\* the view is Ready and an asset item stands under a type item whose children were never
\* requested, while the types of the root are still being loaded: only a regex result
\* builds this
C19_Witness ==
    /\ viewState = "Ready"
    /\ items[root].lstate = "InProgress"
    /\ \E t, l \in DOMAIN items :
        /\ items[t].alive /\ items[l].alive
        /\ items[t].parent = root /\ items[t].etype = "AssetType"
        /\ items[t].lstate = "NotLoaded"
        /\ items[l].parent = t /\ items[l].etype = "AssetName"
        /\ items[l].data # 0

\* the children request of the item is over and has not been answered: the item is
\* InProgress and no request made for it is waiting
ChildrenRequestFailed(item) ==
    /\ items[item].alive
    /\ item = root \/ items[item].etype = "AssetType"
    /\ items[item].lstate = "InProgress"
    /\ \A i \in DOMAIN pending :
        pending[i].kind \in {"types", "assets"} => pending[i].item # item

\* C20: an item whose children request failed stays InProgress and no request is
\* dispatched for it, in every step but a reload, which destroys it
C20_FailedNodeStaysInProgress ==
    [][\A item \in DOMAIN items :
        ChildrenRequestFailed(item) =>
            IF items'[item].alive
            THEN /\ items'[item].lstate = "InProgress"
                 /\ items'[item].dispatched = items[item].dispatched
                 /\ \A i \in DOMAIN pending' :
                     pending'[i].kind \in {"types", "assets"} => pending'[i].item # item
            ELSE calls'.reloads = calls.reloads + 1]_vars

(***************************************************************************)
(* Claims about the projects, the workers and the key index.               *)
(***************************************************************************)
\* C21: a step that changes the project of the Accessor changes nothing else, and a
\* step in which the tree view reloads (reload() or set_active_project) destroys the
\* items and makes a new root, but leaves the icon cache, the pending-request map and
\* the queue of the IconManager as they are
C21_ProjectChangeKeepsCaches ==
    [][/\ acc_project' # acc_project =>
            UNCHANGED <<threadPool, mainEvents, requestLog, iconVars, items, root,
                        mapping, viewState, project, pending, objs, detailsVars>>
       /\ calls'.reloads = calls.reloads + 1 =>
            /\ loaded_icons' = loaded_icons
            /\ requests' = requests
            /\ queue' = queue
            /\ root' # root
            /\ items'[root'].alive
            /\ \A i \in DOMAIN items : ~items'[i].alive]_vars

\* after a reload and a change of the accessor's project, with no result delivered
\* to the new tree, the manager still has a cached icon, a pending request and a
\* queued asset
C21_Witness ==
    /\ calls.reloads = 1
    /\ items[root].lstate = "InProgress"
    /\ \A i \in DOMAIN items : items[i].alive => i = root
    /\ acc_project # project
    /\ loaded_icons # EmptyDict
    /\ requests # EmptyDict
    /\ queue # <<>>

\* the steps of the loader threads
WorkerOps == {"get", "emit", "fail"}

C23_StoppedWorkersTerminate ==
    /\ [](\A w \in Loaders : workers[w].after <= 1)
    /\ [](\A w \in Loaders : workers[w].pc = "done" => ~workers[w].running)
    /\ (stopper.at # "idle") ~>
           (stopper.at = "returned" /\ \A w \in Loaders : ThreadFinished(workers[w]))

\* _stop_loader has returned with an asset left in the queue, and one loader took an
\* asset after it was stopped
C23_Witness ==
    /\ stopper.at = "returned"
    /\ \A w \in Loaders : ThreadFinished(workers[w])
    /\ queue # <<>>
    /\ \E w \in Loaders : workers[w].after = 1

\* the entries of the queue for an asset id, and the numbers of the queued assets
QueuedFor(asset_id) == {i \in DOMAIN queue : queue[i].info.id = asset_id}
QueuedSeqs == {queue[i].seq : i \in DOMAIN queue}

\* the queue without its entry i
QueueWithout(i) == [k \in 1..(Len(queue) - 1) |-> IF k < i THEN queue[k] ELSE queue[k + 1]]

\* C24: there are 12 loaders on the one queue; every asset put on the queue gets a place
\* of its own, leaves the queue in one step into one waiting loader, which is the one
\* fetch counted for it, and is then neither queued nor held by a second loader; and
\* with the loader threads running a queued asset does not stay in the queue forever.
C24_EachQueuedAssetFetchedOnce ==
    /\ [](Cardinality(Loaders) = 12 /\ DOMAIN loaders = Loaders)
    /\ [](/\ \A i, j \in DOMAIN queue : queue[i].seq = queue[j].seq => i = j
          /\ \A i \in DOMAIN queue : queue[i].seq <= hist.seq
          /\ \A w \in Loading :
                /\ loaders[w].seq \notin QueuedSeqs
                /\ \A x \in Loading : loaders[x].seq = loaders[w].seq => x = w)
    /\ [][/\ QueuedSeqs' \ QueuedSeqs \subseteq {hist.seq + 1}
          /\ (Len(queue') < Len(queue) \/ hist'.fetches # hist.fetches) =>
                \E i \in DOMAIN queue, w \in Waiting :
                    /\ queue' = QueueWithout(i)
                    /\ hist'.fetches = Bump(hist.fetches, queue[i].info.id)
                    /\ loaders' = [loaders EXCEPT ![w] = queue[i]]]_vars
    /\ \A k \in 1..MaxIconCalls : (k \in QueuedSeqs) ~> (k \notin QueuedSeqs)

\* two assets were put and each was fetched once, by two loaders that are both still
\* fetching, and the queue is empty
C24_Witness ==
    /\ queue = <<>>
    /\ Cardinality(Loading) = 2
    /\ \E a, b \in AssetIds : a # b /\ hist.puts[a] = 1 /\ hist.puts[b] = 1
                              /\ hist.fetches[a] = 1 /\ hist.fetches[b] = 1

\* the keys of the index whose item was destroyed
StaleKeys == {key \in DOMAIN mapping : ~items[mapping[key]].alive}

\* C25: in every state the view reaches, the lookup of a key whose item was destroyed
\* finds nothing and deletes that key and no other, and the lookup of a key whose item
\* is alive finds the item and changes nothing; reload() destroys the items and leaves
\* their entries in the index, and an entry changes only for a destroyed item, when an
\* append looks its key up and puts the item it creates in its place.
C25_StaleKeyEvictedOnLookup ==
    /\ [](\A key \in DOMAIN mapping :
            LET found == _find_item_by_key(View, key)
            IN  IF key \in StaleKeys
                THEN /\ found.item = 0
                     /\ DOMAIN found.S.mapping = DOMAIN mapping \ {key}
                     /\ \A k \in DOMAIN mapping \ {key} : found.S.mapping[k] = mapping[k]
                     /\ found.S.items = items
                ELSE found.item = mapping[key] /\ found.S = View)
    /\ [][/\ calls'.reloads = calls.reloads + 1 => mapping' = mapping
          /\ \A key \in DOMAIN mapping :
                /\ key \in DOMAIN mapping'
                /\ mapping'[key] # mapping[key] =>
                      /\ key \in StaleKeys
                      /\ mapping'[key] > Len(items)
                      /\ items'[mapping'[key]].alive]_vars

\* after a reload the index holds the key of a destroyed item, which was not looked up,
\* next to a key whose destroyed item was looked up and replaced by a live one
C25_Witness ==
    /\ calls.reloads = 1
    /\ StaleKeys # {}
    /\ \E key \in DOMAIN mapping \ StaleKeys, leaf \in StaleKeys :
          /\ items[mapping[key]].parent = root
          /\ Len(key) = 2 /\ Len(leaf) = 3
          /\ leaf[1] = key[1] /\ leaf[2] = key[2]
          /\ mapping[leaf] < mapping[key]

\* the asset items on screen whose AssetInfo has details stored
ItemsWithDetails ==
    {item \in DOMAIN items :
        /\ Shown(item) /\ items[item].etype = "AssetName"
        /\ ~objs[items[item].data].details.none}

\* C26: in every state the view reaches, a details result that arrives for a request in
\* flight is stored on the AssetInfo the request was made for, and when another asset
\* is selected by then the panel stays as it is; a click on an asset item whose
\* AssetInfo has details stored dispatches nothing and leaves the panel Ready with
\* those details.  As steps: a finishing details request changes the AssetInfo objects
\* only by storing details on its own.
C26_DetailsStoredAndReused ==
    /\ [](\A i \in DOMAIN pending :
            pending[i].kind = "details" =>
                \A asset_details \in DetailsResults(objs[pending[i].obj].id) :
                    LET asset_info == pending[i].obj
                        S == _on_asset_details_received(Finished(i), asset_info,
                                                        asset_details)
                    IN  /\ S.objs[asset_info].details = asset_details
                        /\ \A o \in DOMAIN objs \ {asset_info} : S.objs[o] = objs[o]
                        /\ ~SameAssetInfo(S.objs[current_asset_info], S.objs[asset_info])
                              => S.panel = panel
                        /\ (SameAssetInfo(S.objs[current_asset_info], S.objs[asset_info])
                            /\ ~asset_details.none)
                              => S.panel.state = "Ready" /\ S.panel.shown = asset_details)
    /\ [](\A item \in ItemsWithDetails :
            LET S == _on_item_clicked(View, item)
            IN  /\ S.pending = pending
                /\ S.objs = objs
                /\ S.current_asset_info = items[item].data
                /\ S.panel.state = "Ready"
                /\ S.panel.shown = objs[items[item].data].details)
    /\ [][\A i \in DOMAIN pending :
            (pending[i].kind = "details" /\ pending' = RemoveAt(pending, i)
             /\ objs' # objs) =>
                /\ objs'[pending[i].obj].details
                      \in DetailsResults(objs[pending[i].obj].id)
                /\ \A o \in DOMAIN objs \ {pending[i].obj} : objs'[o] = objs[o]]_vars

\* an asset has its details stored while another asset is selected, whose details are
\* being fetched, and the panel shows neither; the first asset's item is on screen
C26_Witness ==
    /\ panel.state = "Loading"
    /\ \E item \in ItemsWithDetails :
          /\ items[item].data # current_asset_info
          /\ objs[items[item].data].id # objs[current_asset_info].id
    /\ \E i \in DOMAIN pending :
          pending[i].kind = "details" /\ pending[i].obj = current_asset_info

\* C27: when a regex result is applied, every asset item that existed before has the
\* same payload afterwards, with the details stored on it, and the same loading state.
C27_RegexResultKeepsExistingLeaf ==
    [][\A i \in DOMAIN pending :
        (pending[i].kind = "regex" /\ pending' = RemoveAt(pending, i)) =>
            \A leaf \in DOMAIN items :
                (items[leaf].alive /\ items[leaf].etype = "AssetName") =>
                    /\ items'[leaf].lstate = items[leaf].lstate
                    /\ objs'[items'[leaf].data] = objs[items[leaf].data]]_vars

\* the step delivers or ends the children request i
ChildrenRequestEnds(i) ==
    /\ pending[i].kind \in {"types", "assets"}
    /\ pending' = RemoveAt(pending, i)

\* C28: the root or a type item becomes Loaded only in the step that ends its own
\* children request; every item that _append_item creates is NotLoaded; a type item
\* that is NotLoaded dispatches its assets request when it is expanded, also when a
\* regex result made it; and the result of an assets request adds, under its item, one
\* leaf for each name that has none yet and nothing else.
C28_LoadedOnlyByOwnResult ==
    [][/\ \A n \in DOMAIN items :
            (/\ items[n].alive /\ items'[n].alive
             /\ items[n].etype # "AssetName"
             /\ items[n].lstate # "Loaded" /\ items'[n].lstate = "Loaded") =>
                \E i \in DOMAIN pending : ChildrenRequestEnds(i) /\ pending[i].item = n
       /\ \A c \in (Len(items) + 1)..Len(items') :
            c # root' => items'[c].lstate = "NotLoaded"
       /\ \A n \in DOMAIN items :
            (/\ items[n].alive /\ items[n].etype = "AssetType"
             /\ items[n].lstate = "NotLoaded"
             /\ n \notin expandedIndexes /\ n \in expandedIndexes') =>
                /\ items'[n].lstate = "InProgress"
                /\ pending' = Append(pending, Request("assets", n, items[n].text, 0))
       /\ \A i \in DOMAIN pending :
            (pending[i].kind = "assets" /\ ChildrenRequestEnds(i)) =>
                \A c \in (Len(items) + 1)..Len(items') :
                    /\ items'[c].parent = pending[i].item
                    /\ items'[c].etype = "AssetName"
                    /\ ChildrenNamed(items, pending[i].item, "AssetName",
                                     items'[c].text) = {}
                    /\ ChildrenNamed(items', pending[i].item, "AssetName",
                                     items'[c].text) = {c}]_vars

(***************************************************************************)
(* Claims about the comparator's order and about the loading of icons.     *)
(***************************************************************************)
\* natural key a is strictly above natural key b: at the first place where they part,
\* a has the greater element, or b has ended there and a has not
NaturalAbove(a, b) ==
    \E d \in 1..Len(a) :
        /\ \A k \in 1..(d - 1) : k <= Len(b) /\ a[k] = b[k]
        /\ \/ d > Len(b)
           \/ /\ a[d] # b[d]
              /\ IF a[d].type = "str" THEN b[d].type = "str" /\ StrGreater(a[d].v, b[d].v)
                 ELSE b[d].type = "float" /\ a[d].v > b[d].v

\* the natural key has its text runs at the odd places and its numbers at the even ones
RunsAlternate(hk) ==
    \A k \in 1..Len(hk) : hk[k].type = (IF k % 2 = 1 THEN "str" ELSE "float")

\* C29: lessThan(a, b) is a truth value, true exactly when the natural key of a is
\* strictly above the natural key of b; it is false for equal keys and never true in
\* both directions; the two natural keys have text runs and numbers at the same
\* places, so at every place they share a text run meets a text run and a number a
\* number.
C29_LessThanIsStrictInverseOrder ==
    sortCalled =>
        LET a == _human_key(sortLeft)
            b == _human_key(sortRight)
        IN  /\ sortLess \in BOOLEAN
            /\ sortLess <=> NaturalAbove(a, b)
            /\ sortLeft = sortRight => ~sortLess
            /\ sortLess => lessThan(sortRight, sortLeft) = FALSE
            /\ (a # b) => (sortLess \/ lessThan(sortRight, sortLeft) = TRUE)
            /\ RunsAlternate(a) /\ RunsAlternate(b)
            /\ \A k \in 1..Len(a) : k <= Len(b) => a[k].type = b[k].type

\* lessThan has compared "v1", whose key is a text run, a number and an empty text run,
\* with "1v", whose key is an empty text run, a number and a text run, and found the
\* left key the greater one
C29_Witness ==
    /\ sortCalled
    /\ sortLeft = <<"v", "1">> /\ sortRight = <<"1", "v">>
    /\ sortLess = TRUE

\* the live asset items that are InProgress: their icon was requested and their
\* _on_loaded has not run
AwaitingIcon ==
    {item \in DOMAIN items :
        items[item].alive /\ items[item].etype = "AssetName"
        /\ items[item].lstate = "InProgress"}

\* the asset item waits for an icon that no step will bring: it is InProgress and
\* either another callback is registered for its asset id or no fetch of that id is
\* queued, running or posted
Unnotified(its, reqs, q, ld, po, ob, item) ==
    LET asset_id == ob[its[item].data].id
    IN  /\ its[item].alive /\ its[item].etype = "AssetName"
        /\ its[item].lstate = "InProgress"
        /\ \/ asset_id \notin DOMAIN reqs
           \/ reqs[asset_id] # item
           \/ /\ \A i \in DOMAIN q : q[i].info.id # asset_id
              /\ \A w \in Loaders : ld[w] # NoJob => ld[w].info.id # asset_id
              /\ \A i \in DOMAIN po : po[i].info.id # asset_id

\* no step of the view, the loaders or the user ends the wait of such an item, short
\* of destroying it
UnnotifiedStays ==
    [][\A item \in DOMAIN items :
        (Unnotified(items, requests, queue, loaders, posted, objs, item)
         /\ items'[item].alive) =>
            Unnotified(items', requests', queue', loaders', posted', objs', item)]_vars

\* C30: with the loader threads and the UI thread running, every live asset item that
\* is InProgress becomes Loaded with an icon set: as an item only leaves InProgress by
\* its _on_loaded or by being destroyed, from some point on no live asset item is
\* InProgress, and every Loaded asset item has an icon.
C30_RequestedIconArrives ==
    /\ [](\A item \in DOMAIN items :
            (items[item].alive /\ items[item].etype = "AssetName"
             /\ items[item].lstate = "Loaded") => ~IconMissing(items[item]))
    /\ <>[](AwaitingIcon = {})

(***************************************************************************)
(* Claims about repeated deliveries, stale results and the view state.     *)
(***************************************************************************)
\* C31: the callback that one request_icon call registered is invoked at most once by
\* the deliveries, whatever the order of request_icon, deliveries and clear_cache.
C31_RegisteredCallbackInvokedOnce ==
    \A asset_id \in AssetIds : hist.invoked[asset_id] <= 1

\* the request was dispatched for a tree that a reload has destroyed since
Stale(request) ==
    request.kind \in {"types", "assets", "regex"} /\ ~items[request.item].alive

\* C32: when the result of a request that was dispatched before a reload arrives after
\* it, or the request fails, nothing is appended to the rebuilt tree, no loading state
\* changes and the view state stays as it is; this for results of asset types, of the
\* assets of a destroyed type item and of a regex search.
C32_StaleResultIsDropped ==
    [][\A i \in DOMAIN pending :
        (Stale(pending[i]) /\ pending' = RemoveAt(pending, i)) =>
            /\ Len(items') = Len(items)
            /\ \A item \in DOMAIN items : items'[item].lstate = items[item].lstate
            /\ viewState' = viewState]_vars

\* C33 as stated: the view is Ready only when the root is Loaded.
C33_ReadyOnlyWhenRootLoaded ==
    viewState = "Ready" => items[root].lstate = "Loaded"

\* the step ends a request of one of the kinds
RequestEnds(kinds) ==
    \E i \in DOMAIN pending : pending[i].kind \in kinds /\ pending' = RemoveAt(pending, i)

\* C33 amended: the view state follows the last of these events, not the root: a
\* reload (which leaves the new root InProgress) and a search with a pattern make it
\* Loading; the delivery of a types result (which leaves the root Loaded), the delivery
\* of a regex result and load_by_regex without a pattern make it Ready, whatever the
\* state of the root; nothing else changes it.
C33_ViewStateFollowsLastEvent ==
    [][/\ calls'.reloads = calls.reloads + 1 =>
            viewState' = "Loading" /\ items'[root'].lstate = "InProgress"
       /\ calls'.searches = calls.searches + 1 => viewState' = "Loading"
       /\ (calls'.user = calls.user + 1 /\ filterPattern' = "" /\ pending' = pending
           /\ calls'.reloads = calls.reloads /\ items' = items /\ acc_project' = acc_project
           /\ currentItem' = currentItem /\ expandedIndexes' = expandedIndexes) =>
            viewState' = "Ready"
       /\ (RequestEnds({"types"}) /\ items' # items) =>
            viewState' = "Ready" /\ items'[root'].lstate = "Loaded"
       /\ (RequestEnds({"regex"}) /\ items' # items) => viewState' = "Ready"
       /\ viewState' # viewState =>
            IF viewState' = "Loading"
            THEN calls'.reloads = calls.reloads + 1 \/ calls'.searches = calls.searches + 1
            ELSE \/ RequestEnds({"types", "regex"})
                 \/ calls'.user = calls.user + 1 /\ filterPattern' = ""]_vars

\* the view is Ready while the types request of its root is still in flight and the
\* root InProgress, and no search was ever dispatched: the filter line was emptied
C33_Witness ==
    /\ viewState = "Ready"
    /\ items[root].lstate = "InProgress"
    /\ calls.searches = 0
    /\ \E i \in DOMAIN pending : pending[i].kind = "types" /\ pending[i].item = root

\* the live asset items
LiveAssetItems ==
    {item \in DOMAIN items : items[item].alive /\ items[item].etype = "AssetName"}

\* C34: a live asset item has called request_icon at most once: not at all while it is
\* NotLoaded, once when it is InProgress or Loaded; a Loaded asset item has an icon
\* that is not null, so that a query of the decoration of an item that is InProgress or
\* Loaded requests nothing; and an asset item never becomes NotLoaded again.
C34_IconRequestedOncePerItem ==
    /\ [](\A item \in LiveAssetItems :
            /\ items[item].requested <= 1
            /\ items[item].requested = (IF items[item].lstate = "NotLoaded" THEN 0 ELSE 1)
            /\ items[item].lstate = "Loaded" => ~IconMissing(items[item])
            /\ items[item].lstate # "NotLoaded" => ~RequestsIcon(items[item]))
    /\ [][\A item \in LiveAssetItems :
            (items'[item].alive /\ items[item].lstate # "NotLoaded") =>
                /\ items'[item].lstate # "NotLoaded"
                /\ items'[item].requested = items[item].requested]_vars

\* an asset item is Loaded with the generic icon after a fetch that gave a null pixmap,
\* and another is InProgress; each has called request_icon once
C34_Witness ==
    \E item, other \in LiveAssetItems :
        /\ items[item].lstate = "Loaded" /\ items[item].icon = AssetIcon
        /\ items[item].requested = 1
        /\ items[other].lstate = "InProgress" /\ items[other].requested = 1

(***************************************************************************)
(* Claims about the details panel when a fetch gives nothing.              *)
(***************************************************************************)
\* the asset items on screen whose payload is the AssetInfo object obj
ItemsOf(obj) ==
    {item \in DOMAIN items :
        Shown(item) /\ items[item].etype = "AssetName" /\ items[item].data = obj}

\* no details request is in flight for the asset that is selected
NoFetchForSelection ==
    \A i \in DOMAIN pending :
        pending[i].kind = "details" =>
            objs[pending[i].obj].id # objs[current_asset_info].id

\* C35: in every state the view reaches, when a details request of the selected asset
\* resolves with None the panel becomes Empty and no details are stored, and a click on
\* an item of that asset then dispatches a new details request with the panel Loading;
\* and when the panel is Loading and no details request of the selected asset is in
\* flight (it raised, or was not dispatched) the panel stays Loading in every step but
\* a click on another node.
C35_NoDetailsGivesEmptyThenRefetch ==
    /\ [](\A i \in DOMAIN pending :
            (pending[i].kind = "details" /\ pending[i].obj = current_asset_info) =>
                LET obj == pending[i].obj
                    S == _on_asset_details_received(Finished(i), obj, NoDetails)
                IN  /\ S.panel.state = "Empty"
                    /\ S.objs[obj].details.none
                    /\ \A item \in ItemsOf(obj) :
                        LET S2 == _on_item_clicked(S, item)
                        IN  /\ S2.pending = Append(S.pending,
                                                   Request("details", item, "", obj))
                            /\ S2.panel.state = "Loading")
    /\ [][(/\ panel.state = "Loading"
           /\ current_asset_info # 0
           /\ NoFetchForSelection
           /\ panel'.state # "Loading") =>
              /\ calls'.user = calls.user + 1
              /\ currentItem' # 0
              /\ \/ items[currentItem'].etype # "AssetName"
                 \/ items[currentItem'].data # current_asset_info]_vars

\* the item that was clicked last is an asset item, its AssetInfo is the selected one
\* and has no details, and the panel is Empty: the fetch resolved with None
C35_Witness ==
    /\ panel.state = "Empty"
    /\ currentItem # 0
    /\ items[currentItem].alive /\ items[currentItem].etype = "AssetName"
    /\ items[currentItem].data = current_asset_info
    /\ objs[current_asset_info].details.none
    /\ NoFetchForSelection

=============================================================================
